---- MODULE Spec2Model ----
(***************************************************************************)
(* Model of the ai-review decision-and-persistence core: the review data   *)
(* model (models.rs), the JSON file ledger (ledger/json.rs), the rules     *)
(* engine (rules.rs), the orchestrator (orchestrator.rs) and the CLI       *)
(* decide path (main.rs).                                                  *)
(***************************************************************************)
EXTENDS Integers, Sequences, FiniteSets, TLC

VARIABLES
    files,          \* JSON ledger directory: review id -> contents of "<id>.json"
    index,          \* contents of "index.json": sequence of serialized entries
    pgReviews,      \* relational ledger: table reviews, id -> row
    pgSuggestions,  \* relational ledger: table suggestions, rows in insertion order
    nextId,         \* next value Uuid::new_v4() hands out
    now,            \* Utc::now(), counted in half-days
    reviewed,       \* history: context -> id its first successful review() returned
    lastSaved,      \* history: the review the most recent direct save() was given,
                    \*          and whether its id had been saved before
    subject,        \* rules engine under test: its rules and the review given to apply
    applied,        \* rules engine under test: the results of apply, call by call
    called,         \* history: the last call that returned, its result and the ledger before it
    suppItems,      \* Suppressions.items
    tree,           \* the files under repo_root: path -> content, line by line
    swept,          \* the last cleanup(): the repo_root it was given and the count it logged
    advice,         \* the text of the advisor's response given to extract_json
    extracted,      \* what extract_json made of it
    pgTx,           \* relational ledger: the transaction of a save() in flight
    pgLoad,         \* relational ledger: a load() in flight, between its two queries
    pgOut,          \* relational ledger: what the last load() or mark_stale() returned
    savers,         \* JSON ledger: each process's position in its save() and what it holds
    indexTorn,      \* JSON ledger: a write of "index.json" failed part-way, the document is cut
    overlapped      \* history: two save() calls on the JSON ledger were in flight at once

vars == <<files, index, pgReviews, pgSuggestions, nextId, now, reviewed,
          lastSaved, subject, applied, called, suppItems, tree, swept,
          advice, extracted, pgTx, pgLoad, pgOut, savers, indexTorn, overlapped>>

\* the variables of the suppression list
suppVars == <<suppItems, tree, swept>>

\* the variables of the advisor's response
advisorVars == <<advice, extracted>>

\* the variables of the calls in flight on the relational ledger
pgCallVars == <<pgTx, pgLoad, pgOut>>

\* the variables of the save() calls in flight on the JSON ledger
jsonCallVars == <<savers, indexTorn, overlapped>>


----------------------------------------------------------------------------
(* Bounds *)

MaxReviews == 2     \* reviews ever created (Uuid::new_v4 values)

----------------------------------------------------------------------------
(* Option<T>: None is the empty sequence, Some(x) the one-element sequence *)

None == <<>>
Some(x) == <<x>>
IsSome(o) == Len(o) > 0
IsNone(o) == Len(o) = 0

Min(S) == CHOOSE x \in S : \A y \in S : x <= y

\* the processes that work on one JSON ledger directory
Procs == {"p1", "p2"}

\* a process outside save(), and what its save() calls returned so far
Idle(results) == [pc |-> "idle", review |-> None, loaded |-> None, results |-> results]

----------------------------------------------------------------------------
(* models.rs: enumerations and their serde names *)

Severity == {"Critical", "High", "Medium", "Low"}
SuggestionType == {"Security", "Performance", "Style", "Logic", "Documentation"}
HumanDecision == {"Accepted", "Rejected", "Deferred"}
ReviewStatus == {"Pending", "Decided", "Applied", "Stale"}

\* #[serde(rename_all = "lowercase")]: the variant name, lowercased
SerdeLowercase(v) ==
    CASE v = "Critical" -> "critical" [] v = "High" -> "high"
      [] v = "Medium" -> "medium" [] v = "Low" -> "low"
      [] v = "Security" -> "security" [] v = "Performance" -> "performance"
      [] v = "Style" -> "style" [] v = "Logic" -> "logic"
      [] v = "Documentation" -> "documentation"
      [] v = "Accepted" -> "accepted" [] v = "Rejected" -> "rejected"
      [] v = "Deferred" -> "deferred"
      [] v = "Pending" -> "pending" [] v = "Decided" -> "decided"
      [] v = "Applied" -> "applied" [] v = "Stale" -> "stale"

\* serde deserialization of a lowercase name into the variant of enum E
SerdeVariant(E, s) == CHOOSE v \in E : SerdeLowercase(v) = s

----------------------------------------------------------------------------
(* models.rs: Review and its parts *)

\* Review::new(context): a fresh pending review without suggestions
NewReview(id, context, created) ==
    [id |-> id,
     pr_number |-> context.pr_number,
     repo |-> context.repo,
     commit_sha |-> context.commit_sha,
     created_at |-> created,
     status |-> "Pending",
     suggestions |-> <<>>]

\* mutant: one decided item is enough
is_fully_decided_any(review) ==
    \E i \in 1..Len(review.suggestions) : IsSome(review.suggestions[i].decision)

\* Review::is_fully_decided
is_fully_decided(review) ==
    \A i \in 1..Len(review.suggestions) : IsSome(review.suggestions[i].decision)

\* Review::pending_suggestions
pending_suggestions(review) ==
    SelectSeq(review.suggestions, LAMBDA s : IsNone(s.decision))

----------------------------------------------------------------------------
(* serde_json documents of a Review and of a ReviewIndexEntry *)

DecisionToJson(d) ==
    [suggestion_id |-> d.suggestion_id,
     decision |-> SerdeLowercase(d.decision),
     reason |-> d.reason,
     decided_by |-> d.decided_by,
     decided_at |-> d.decided_at]

DecisionFromJson(j) ==
    [suggestion_id |-> j.suggestion_id,
     decision |-> SerdeVariant(HumanDecision, j.decision),
     reason |-> j.reason,
     decided_by |-> j.decided_by,
     decided_at |-> j.decided_at]

\* Suggestion: the field suggestion_type is written under the key "type"
SuggestionToJson(s) ==
    [id |-> s.id,
     type |-> SerdeLowercase(s.suggestion_type),
     severity |-> SerdeLowercase(s.severity),
     location |-> s.location,
     description |-> s.description,
     proposed_fix |-> s.proposed_fix]

SuggestionFromJson(j) ==
    [id |-> j.id,
     suggestion_type |-> SerdeVariant(SuggestionType, j.type),
     severity |-> SerdeVariant(Severity, j.severity),
     location |-> j.location,
     description |-> j.description,
     proposed_fix |-> j.proposed_fix]

\* mutant: the decision is left out of the document
ItemToJsonSkipDecision(item) ==
    [suggestion |-> SuggestionToJson(item.suggestion), decision |-> None]

ItemToJson(item) ==
    [suggestion |-> SuggestionToJson(item.suggestion),
     decision |-> IF IsSome(item.decision)
                  THEN Some(DecisionToJson(item.decision[1])) ELSE None]

ItemFromJson(j) ==
    [suggestion |-> SuggestionFromJson(j.suggestion),
     decision |-> IF IsSome(j.decision)
                  THEN Some(DecisionFromJson(j.decision[1])) ELSE None]

ReviewToJson(review) ==
    [id |-> review.id,
     pr_number |-> review.pr_number,
     repo |-> review.repo,
     commit_sha |-> review.commit_sha,
     created_at |-> review.created_at,
     status |-> SerdeLowercase(review.status),
     suggestions |-> [i \in 1..Len(review.suggestions) |->
                         ItemToJson(review.suggestions[i])]]

ReviewFromJson(j) ==
    [id |-> j.id,
     pr_number |-> j.pr_number,
     repo |-> j.repo,
     commit_sha |-> j.commit_sha,
     created_at |-> j.created_at,
     status |-> SerdeVariant(ReviewStatus, j.status),
     suggestions |-> [i \in 1..Len(j.suggestions) |->
                         ItemFromJson(j.suggestions[i])]]

\* ledger/json.rs: struct ReviewIndexEntry
IndexEntryToJson(e) ==
    [id |-> e.id, repo |-> e.repo, pr_number |-> e.pr_number,
     commit_sha |-> e.commit_sha, status |-> SerdeLowercase(e.status)]

IndexEntryFromJson(j) ==
    [id |-> j.id, repo |-> j.repo, pr_number |-> j.pr_number,
     commit_sha |-> j.commit_sha, status |-> SerdeVariant(ReviewStatus, j.status)]

----------------------------------------------------------------------------
(* ledger/json.rs: JsonLedger over the directory (fs = files, idx = index)  *)

\* JsonLedger::load_index: the parsed entries of index.json (empty if absent)
load_index(idx) == [i \in 1..Len(idx) |-> IndexEntryFromJson(idx[i])]

\* JsonLedger::save_index: the document written to index.json
save_index(entries) == [i \in 1..Len(entries) |-> IndexEntryToJson(entries[i])]

\* mutant: the stored reviews of the same pull request are rewritten as stale
WriteReviewFileSuperseding(fs, review) ==
    [i \in (DOMAIN fs) \cup {review.id} |->
        IF i = review.id THEN ReviewToJson(review)
        ELSE IF /\ ReviewFromJson(fs[i]).repo = review.repo
                /\ ReviewFromJson(fs[i]).pr_number = review.pr_number
             THEN ReviewToJson([ReviewFromJson(fs[i]) EXCEPT !.status = "Stale"])
             ELSE fs[i]]

\* fs::write(review_path(id), to_string_pretty(review))
WriteReviewFile(fs, review) ==
    [i \in (DOMAIN fs) \cup {review.id} |->
        IF i = review.id THEN ReviewToJson(review) ELSE fs[i]]

\* mutant: no prior entry is removed
RetainAll(entries, id) == entries

\* mutant: every prior entry is removed
RetainNone(entries, id) == <<>>

\* index.reviews.retain(|r| r.id != review.id)
RetainOthers(entries, id) == SelectSeq(entries, LAMBDA r : r.id # id)

\* index.reviews.push(ReviewIndexEntry { .. })
PushEntry(entries, review) ==
    Append(entries,
           [id |-> review.id, repo |-> review.repo,
            pr_number |-> review.pr_number,
            commit_sha |-> review.commit_sha, status |-> review.status])

\* JsonLedger::save, index part: load_index, retain, push, save_index
SaveIndexOf(idx, review) ==
    save_index(PushEntry(RetainOthers(load_index(idx), review.id), review))

\* JsonLedger::save, file part
SaveFilesOf(fs, review) == WriteReviewFile(fs, review)

\* Iterator::find: the first element of seq among the positions hits
FirstOf(seq, hits) == IF hits = {} THEN None ELSE Some(seq[Min(hits)])

\* JsonLedger::load
JsonLoad(fs, id) ==
    IF id \notin DOMAIN fs THEN None ELSE Some(ReviewFromJson(fs[id]))

\* "if let Some(entry) = entry { self.load(&entry.id) } else { Ok(None) }"
LoadEntry(fs, entry) == IF IsSome(entry) THEN JsonLoad(fs, entry[1].id) ELSE None

\* |r| r.repo == repo && r.pr_number == Some(pr_number)
PrEntries(entries, repo, pr) ==
    {i \in 1..Len(entries) : entries[i].repo = repo /\ entries[i].pr_number = Some(pr)}

\* |r| r.repo == repo && r.commit_sha == commit_sha
CommitEntries(entries, repo, sha) ==
    {i \in 1..Len(entries) : entries[i].repo = repo /\ entries[i].commit_sha = sha}

\* JsonLedger::load_by_pr
JsonLoadByPr(fs, idx, repo, pr) ==
    LoadEntry(fs, FirstOf(load_index(idx), PrEntries(load_index(idx), repo, pr)))

\* JsonLedger::load_by_commit
JsonLoadByCommit(fs, idx, repo, sha) ==
    LoadEntry(fs, FirstOf(load_index(idx), CommitEntries(load_index(idx), repo, sha)))

\* JsonLedger::list_pending
JsonListPending(fs, idx) ==
    LET pend == SelectSeq(load_index(idx), LAMBDA r : r.status = "Pending")
        have == SelectSeq(pend, LAMBDA r : r.id \in DOMAIN fs)
    IN  [i \in 1..Len(have) |-> ReviewFromJson(fs[have[i].id])]

\* JsonLedger::list_by_repo
JsonListByRepo(fs, idx, repo) ==
    LET mine == SelectSeq(load_index(idx), LAMBDA r : r.repo = repo)
        have == SelectSeq(mine, LAMBDA r : r.id \in DOMAIN fs)
    IN  [i \in 1..Len(have) |-> ReviewFromJson(fs[have[i].id])]

----------------------------------------------------------------------------
(* Strings the code takes apart are sequences of one-character strings     *)

Max(S) == CHOOSE x \in S : \A y \in S : x >= y

\* str::find: position of the first occurrence of pat in s, 0 if there is none
Find(s, pat) ==
    LET hits == {i \in 1..(Len(s) - Len(pat) + 1) : SubSeq(s, i, i + Len(pat) - 1) = pat}
    IN  IF hits = {} THEN 0 ELSE Min(hits)

\* str::contains
Contains(s, pat) == Find(s, pat) # 0

\* str::split(pat): the pieces between the non-overlapping matches, left to right
RECURSIVE Split(_, _)
Split(s, pat) ==
    LET i == Find(s, pat)
    IN  IF i = 0 THEN <<s>>
        ELSE <<SubSeq(s, 1, i - 1)>> \o Split(SubSeq(s, i + Len(pat), Len(s)), pat)

Whitespace == {" ", "\t", "\n", "\r"}

\* str::trim
Trim(s) ==
    LET keep == {i \in 1..Len(s) : s[i] \notin Whitespace}
    IN  IF keep = {} THEN <<>> ELSE SubSeq(s, Min(keep), Max(keep))

\* str::trim_matches(c)
TrimMatches(s, c) ==
    LET keep == {i \in 1..Len(s) : s[i] # c}
    IN  IF keep = {} THEN <<>> ELSE SubSeq(s, Min(keep), Max(keep))

Digits == <<"0", "1", "2", "3", "4", "5", "6", "7", "8", "9">>
IsDigit(c) == \E d \in 1..10 : Digits[d] = c
DigitVal(c) == (CHOOSE d \in 1..10 : Digits[d] = c) - 1

RECURSIVE DigitsValue(_)
DigitsValue(s) ==
    IF Len(s) = 0 THEN 0
    ELSE 10 * DigitsValue(SubSeq(s, 1, Len(s) - 1)) + DigitVal(s[Len(s)])

RECURSIVE Pow10(_)
Pow10(k) == IF k = 0 THEN 1 ELSE 10 * Pow10(k - 1)

\* the digits of a literal: Some(<<n, d>>) is the number n/d (d > 0), None a
\* parse error
ParseDigits(negative, whole, frac) ==
    IF ~(/\ \A i \in 1..Len(whole) : IsDigit(whole[i])
         /\ \A i \in 1..Len(frac) : IsDigit(frac[i])
         /\ Len(whole) + Len(frac) > 0)
    THEN None
    ELSE Some(<<(IF negative THEN -1 ELSE 1) *
                    (DigitsValue(whole) * Pow10(Len(frac)) + DigitsValue(frac)),
                Pow10(Len(frac))>>)

\* a literal without its sign, dot the position of its "." (0: none)
ParseUnsigned(negative, body, dot) ==
    ParseDigits(negative,
                IF dot = 0 THEN body ELSE SubSeq(body, 1, dot - 1),
                IF dot = 0 THEN <<>> ELSE SubSeq(body, dot + 1, Len(body)))

ParseBody(negative, body) == ParseUnsigned(negative, body, Find(body, <<".">>))

\* str::parse::<f64> on decimal literals [+-]digits[.digits].  (Exponent, inf
\* and nan forms, which f64 also accepts, are not among the inputs drawn here.)
ParseF64(s) ==
    IF Len(s) > 0 /\ s[1] \in {"+", "-"}
    THEN ParseBody(s[1] = "-", SubSeq(s, 2, Len(s)))
    ELSE ParseBody(FALSE, s)

\* i64::to_string
RECURSIVE NatToString(_)
NatToString(n) ==
    IF n < 10 THEN <<Digits[n + 1]>>
    ELSE NatToString(n \div 10) \o <<Digits[(n % 10) + 1]>>

IntToString(n) == IF n < 0 THEN <<"-">> \o NatToString(0 - n) ELSE NatToString(n)

----------------------------------------------------------------------------
(* rules.rs: the condition language *)

\* "severity"
F_severity == <<"s", "e", "v", "e", "r", "i", "t", "y">>
\* "type"
F_type == <<"t", "y", "p", "e">>
\* "age_days"
F_age_days == <<"a", "g", "e", "_", "d", "a", "y", "s">>
\* "file_path"
F_file_path == <<"f", "i", "l", "e", "_", "p", "a", "t", "h">>
\* "critical"
S_critical == <<"c", "r", "i", "t", "i", "c", "a", "l">>
\* "high"
S_high == <<"h", "i", "g", "h">>
\* "medium"
S_medium == <<"m", "e", "d", "i", "u", "m">>
\* "low"
S_low == <<"l", "o", "w">>
\* "security"
S_security == <<"s", "e", "c", "u", "r", "i", "t", "y">>
\* "performance"
S_performance == <<"p", "e", "r", "f", "o", "r", "m", "a", "n", "c", "e">>
\* "style"
S_style == <<"s", "t", "y", "l", "e">>
\* "logic"
S_logic == <<"l", "o", "g", "i", "c">>
\* "documentation"
S_documentation ==
    <<"d", "o", "c", "u", "m", "e", "n", "t", "a", "t", "i", "o", "n">>

\* severity_to_string
severity_to_string(s) ==
    CASE s = "Critical" -> S_critical [] s = "High" -> S_high
      [] s = "Medium" -> S_medium [] s = "Low" -> S_low

\* type_to_string
type_to_string(t) ==
    CASE t = "Security" -> S_security [] t = "Performance" -> S_performance
      [] t = "Style" -> S_style [] t = "Logic" -> S_logic
      [] t = "Documentation" -> S_documentation

\* mutant: a started day counts as a whole one
num_days_started(d) == IF d >= 0 THEN (d + 1) \div 2 ELSE 0 - ((1 - d) \div 2)

\* chrono Duration::num_days: whole days, truncated toward zero; the clock
\* counts half-days
num_days(d) == IF d >= 0 THEN d \div 2 ELSE 0 - ((0 - d) \div 2)

\* RuleContext::from_suggestion
RuleContextOf(item, created_at, clock) ==
    [severity |-> severity_to_string(item.suggestion.severity),
     suggestion_type |-> type_to_string(item.suggestion.suggestion_type),
     age_days |-> num_days(clock - created_at),
     file_path |-> item.suggestion.location.file]

\* RulesEngine::get_field_value
get_field_value(field, ctx) ==
    CASE field = F_severity -> ctx.severity
      [] field = F_type -> ctx.suggestion_type
      [] field = F_age_days -> IntToString(ctx.age_days)
      [] field = F_file_path -> ctx.file_path
      [] OTHER -> <<>>

\* "field_value > threshold" and its siblings, on the parsed numbers
CompareParsed(field_value, threshold, cmp) ==
    IF IsNone(threshold) THEN FALSE
    ELSE IF IsNone(field_value) THEN FALSE
    ELSE CASE cmp = ">" ->
                field_value[1][1] * threshold[1][2] > threshold[1][1] * field_value[1][2]
           [] cmp = ">=" ->
                field_value[1][1] * threshold[1][2] >= threshold[1][1] * field_value[1][2]
           [] cmp = "<" ->
                field_value[1][1] * threshold[1][2] < threshold[1][1] * field_value[1][2]

\* a numeric branch after the split: parse the literal, then the field's
\* rendered value
CompareParts(parts, cmp, ctx) ==
    IF Len(parts) # 2 THEN FALSE
    ELSE CompareParsed(ParseF64(get_field_value(Trim(parts[1]), ctx)),
                       ParseF64(Trim(parts[2])), cmp)

\* the numeric branches of evaluate_expression; cmp is ">", ">=" or "<"
NumericComparison(expr, op, cmp, ctx) == CompareParts(Split(expr, op), cmp, ctx)

\* the equality branch after the split
EqualParts(parts, ctx) ==
    IF Len(parts) # 2 THEN FALSE
    ELSE get_field_value(Trim(parts[1]), ctx) =
            TrimMatches(TrimMatches(Trim(parts[2]), "'"), "\"")

\* evaluate_expression after "let expr = expr.trim()"
EvaluateTrimmed(expr, ctx) ==
    IF Contains(expr, <<"=", "=">>)
    THEN EqualParts(Split(expr, <<"=", "=">>), ctx)
    ELSE IF Contains(expr, <<">">>) /\ ~Contains(expr, <<">", "=">>)
    THEN NumericComparison(expr, <<">">>, ">", ctx)
    ELSE IF Contains(expr, <<">", "=">>)
    THEN NumericComparison(expr, <<">", "=">>, ">=", ctx)
    ELSE IF Contains(expr, <<"<">>) /\ ~Contains(expr, <<"<", "=">>)
    THEN NumericComparison(expr, <<"<">>, "<", ctx)
    ELSE FALSE

\* RulesEngine::evaluate_expression
evaluate_expression(expr0, ctx) == EvaluateTrimmed(Trim(expr0), ctx)

\* the loop of matches_condition over the parts
AllPartsHold(parts, ctx) ==
    \A i \in 1..Len(parts) : evaluate_expression(Trim(parts[i]), ctx)

\* mutant: one part that holds is enough
matches_condition_any(condition, ctx) ==
    \E part \in {Split(condition, <<" ", "A", "N", "D", " ">>)[i] :
                    i \in 1..Len(Split(condition, <<" ", "A", "N", "D", " ">>))} :
        evaluate_expression(Trim(part), ctx)

\* RulesEngine::matches_condition
matches_condition(condition, ctx) ==
    AllPartsHold(Split(condition, <<" ", "A", "N", "D", " ">>), ctx)

\* the rules whose condition matches the context, by position
MatchingIn(rules, context) ==
    {i \in 1..Len(rules) : matches_condition(rules[i].condition, context)}

\* "return Some((rule.action, rule.reason.clone()))", or None after the loop
RuleOutcome(rule) ==
    IF IsSome(rule) THEN Some(<<rule[1].action, rule[1].reason>>) ELSE None

\* the last element of seq among the positions hits
LastOf(seq, hits) == IF hits = {} THEN None ELSE Some(seq[Max(hits)])

\* mutant: the last matching rule wins
evaluate_rules_last(rules, item, created_at, clock) ==
    RuleOutcome(LastOf(rules, MatchingIn(rules, RuleContextOf(item, created_at, clock))))

\* RulesEngine::evaluate_rules: action and reason of the first matching rule
evaluate_rules(rules, item, created_at, clock) ==
    RuleOutcome(FirstOf(rules, MatchingIn(rules, RuleContextOf(item, created_at, clock))))

\* "[Auto] "
AutoPrefix == <<"[", "A", "u", "t", "o", "]", " ">>

\* mutant: auto_dismiss and auto_defer exchanged
DecisionOfActionSwapped(action) ==
    CASE action = "AutoAccept" -> "Accepted"
      [] action = "AutoDismiss" -> "Deferred"
      [] action = "AutoDefer" -> "Rejected"

\* the match on AutoAction in RulesEngine::apply
DecisionOfAction(action) ==
    CASE action = "AutoAccept" -> "Accepted"
      [] action = "AutoDismiss" -> "Rejected"
      [] action = "AutoDefer" -> "Deferred"

\* the DecisionRecord RulesEngine::apply writes for a matched rule
AutoDecision(item, matched, clock) ==
    [suggestion_id |-> item.suggestion.id,
     decision |-> DecisionOfAction(matched[1]),
     reason |-> Some(AutoPrefix \o matched[2]),
     decided_by |-> "auto-rules",
     decided_at |-> clock]

\* "if let Some((action, reason)) = .. { item.decision = Some(..); count += 1 }"
\* the item as it is left, and whether count was incremented
DecideByRule(item, matched, clock) ==
    IF IsSome(matched)
    THEN [item |-> [item EXCEPT !.decision =
                        Some(AutoDecision(item, matched[1], clock))],
          counted |-> TRUE]
    ELSE [item |-> item, counted |-> FALSE]

\* as DecideByRule, but an item no rule matches is left without a decision
ResetByRule(item, matched, clock) ==
    IF IsSome(matched)
    THEN [item |-> [item EXCEPT !.decision =
                        Some(AutoDecision(item, matched[1], clock))],
          counted |-> TRUE]
    ELSE [item |-> [item EXCEPT !.decision = None], counted |-> FALSE]

\* mutant: the loop assigns the outcome of the rules to every item
ApplyToItemReset(rules, item, created_at, clock) ==
    ResetByRule(item, evaluate_rules(rules, item, created_at, clock), clock)

\* mutant: the loop lacks the "Already decided" skip
ApplyToItemOverwrite(rules, item, created_at, clock) ==
    DecideByRule(item, evaluate_rules(rules, item, created_at, clock), clock)

\* one iteration of the loop of RulesEngine::apply
ApplyToItem(rules, item, created_at, clock) ==
    IF IsSome(item.decision) THEN [item |-> item, counted |-> FALSE]
    ELSE DecideByRule(item, evaluate_rules(rules, item, created_at, clock), clock)

\* the review and the count after the loop
ApplyResult(review, steps) ==
    [review |-> [review EXCEPT !.suggestions =
                    [i \in 1..Len(steps) |-> steps[i].item]],
     count |-> Cardinality({i \in 1..Len(steps) : steps[i].counted})]

\* RulesEngine::apply: the review as the call leaves it and the count it returns
Apply(rules, review, clock) ==
    ApplyResult(review,
                [i \in 1..Len(review.suggestions) |->
                    ApplyToItem(rules, review.suggestions[i], review.created_at, clock)])

----------------------------------------------------------------------------
(* Inputs: what the reviewer returns, the contexts reviewed, the rules *)

\* "src/main.rs"
P_main == <<"s", "r", "c", "/", "m", "a", "i", "n", ".", "r", "s">>
\* "src/lib.rs"
P_lib == <<"s", "r", "c", "/", "l", "i", "b", ".", "r", "s">>

Sugg1 ==
    [id |-> "S001", suggestion_type |-> "Style", severity |-> "Low",
     location |-> [file |-> P_main, line_start |-> 10, line_end |-> 15],
     description |-> "Test suggestion", proposed_fix |-> None]

Sugg2 ==
    [id |-> "S002", suggestion_type |-> "Security", severity |-> "High",
     location |-> [file |-> P_lib, line_start |-> 3, line_end |-> 3],
     description |-> "Unchecked input", proposed_fix |-> Some("validate it")]

Repos == {"owner/repo"}
PrNumbers == {None, Some(1)}
Commits == {"abc123", "def456"}

\* ReviewContext values handed to Orchestrator::review: two commits of one
\* pull request, and a push without a pull request
Contexts ==
    {c \in [pr_number : PrNumbers, repo : Repos, commit_sha : Commits] :
        IsSome(c.pr_number) \/ c.commit_sha = "abc123"}

\* "severity == 'low'"
C_low ==
    <<"s", "e", "v", "e", "r", "i", "t", "y", " ", "=", "=", " ", "'", "l",
      "o", "w", "'">>
\* "severity == 'low' AND type == 'style'"
C_low_style ==
    <<"s", "e", "v", "e", "r", "i", "t", "y", " ", "=", "=", " ", "'", "l",
      "o", "w", "'", " ", "A", "N", "D", " ", "t", "y", "p", "e", " ", "=",
      "=", " ", "'", "s", "t", "y", "l", "e", "'">>
\* "severity == 'high'"
C_high ==
    <<"s", "e", "v", "e", "r", "i", "t", "y", " ", "=", "=", " ", "'", "h",
      "i", "g", "h", "'">>
\* "age_days >= 1"
C_old == <<"a", "g", "e", "_", "d", "a", "y", "s", " ", ">", "=", " ", "1">>
\* "minor"
R_minor == <<"m", "i", "n", "o", "r">>
\* "noise"
R_noise == <<"n", "o", "i", "s", "e">>
\* "later"
R_later == <<"l", "a", "t", "e", "r">>
\* "old"
R_old == <<"o", "l", "d">>

RuleLowAccept == [condition |-> C_low, action |-> "AutoAccept", reason |-> R_minor]
RuleLowStyleDismiss ==
    [condition |-> C_low_style, action |-> "AutoDismiss", reason |-> R_noise]
RuleHighDefer == [condition |-> C_high, action |-> "AutoDefer", reason |-> R_later]
RuleOldDefer == [condition |-> C_old, action |-> "AutoDefer", reason |-> R_old]

\* the auto_rules of the pipeline's configuration
PipelineRules == <<RuleLowStyleDismiss, RuleHighDefer>>

\* arguments of the decide command
PrInputs == {1}
SuggestionIds == {"S001", "S999"}
Users == {"alice"}
Reasons == {None}

----------------------------------------------------------------------------
(* The pipeline: Orchestrator::review, the decide command, the rules step *)

Init ==
    /\ files = <<>>
    /\ index = <<>>
    /\ pgReviews = <<>>
    /\ pgSuggestions = <<>>
    /\ nextId = 1
    /\ now = 0
    /\ reviewed = [c \in Contexts |-> None]
    /\ lastSaved = None
    /\ subject = None
    /\ applied = <<>>
    /\ called = None
    /\ suppItems = <<>>
    /\ tree = <<>>
    /\ swept = None
    /\ advice = None
    /\ extracted = None
    /\ pgTx = None
    /\ pgLoad = None
    /\ pgOut = None
    /\ savers = [p \in Procs |-> Idle(<<>>)]
    /\ indexTorn = FALSE
    /\ overlapped = FALSE

\* JsonLedger::save on the ledger directory
Save(review) ==
    /\ files' = SaveFilesOf(files, review)
    /\ index' = SaveIndexOf(index, review)

\* the lookup at the head of Orchestrator::review
LookupExisting(fs, idx, context) ==
    IF IsSome(context.pr_number)
    THEN JsonLoadByPr(fs, idx, context.repo, context.pr_number[1])
    ELSE JsonLoadByCommit(fs, idx, context.repo, context.commit_sha)

\* "if let Some(existing) = existing { if existing.commit_sha == context.commit_sha"
ReturnsExisting(existing, context) ==
    IsSome(existing) /\ existing[1].commit_sha = context.commit_sha

\* mutant: the status is left as Review::new sets it
BuildReviewPending(id, context, suggestions, created) ==
    [NewReview(id, context, created) EXCEPT
        !.suggestions = [i \in 1..Len(suggestions) |->
                            [suggestion |-> suggestions[i], decision |-> None]]]

\* mutant: the rules are applied before the review is saved
BuildReviewAutoApplied(id, context, suggestions, created) ==
    Apply(PipelineRules,
          [NewReview(id, context, created) EXCEPT
              !.status = IF Len(suggestions) = 0 THEN "Decided" ELSE "Pending",
              !.suggestions = [i \in 1..Len(suggestions) |->
                                  [suggestion |-> suggestions[i], decision |-> None]]],
          created).review

\* the review Orchestrator::review builds from the reviewer's suggestions
BuildReview(id, context, suggestions, created) ==
    [NewReview(id, context, created) EXCEPT
        !.status = IF Len(suggestions) = 0 THEN "Decided" ELSE "Pending",
        !.suggestions = [i \in 1..Len(suggestions) |->
                            [suggestion |-> suggestions[i], decision |-> None]]]

\* history: the id the first successful review(context) returned
NoteReviewed(context, id) ==
    reviewed' = IF IsSome(reviewed[context]) THEN reviewed
                ELSE [reviewed EXCEPT ![context] = Some(id)]

\* the suggestions as the reviewer's JSON carries them (CodexSuggestion)
Raw1 ==
    [id |-> "S001", suggestion_type |-> "style", severity |-> "low",
     location |-> [file |-> P_main, line_start |-> 10, line_end |-> 15],
     description |-> "Test suggestion", proposed_fix |-> None]

Raw2 ==
    [id |-> "S002", suggestion_type |-> "security", severity |-> "high",
     location |-> Sugg2.location,
     description |-> Sugg2.description, proposed_fix |-> Sugg2.proposed_fix]

\* CodexAdapter::convert_suggestion
convert_suggestion(s) ==
    [id |-> s.id,
     suggestion_type |->
        CASE s.suggestion_type = "security" -> "Security"
          [] s.suggestion_type = "performance" -> "Performance"
          [] s.suggestion_type = "style" -> "Style"
          [] s.suggestion_type = "logic" -> "Logic"
          [] s.suggestion_type = "documentation" -> "Documentation"
          [] OTHER -> "Logic",
     severity |->
        CASE s.severity = "critical" -> "Critical"
          [] s.severity = "high" -> "High"
          [] s.severity = "medium" -> "Medium"
          [] OTHER -> "Low",
     location |-> s.location,
     description |-> s.description,
     proposed_fix |-> s.proposed_fix]

\* a message content: text that is not JSON, or a JSON object with its
\* field suggestions (None: the field is missing)
Garbage == [json |-> FALSE, suggestions |-> None]
Object(suggestions) == [json |-> TRUE, suggestions |-> suggestions]

\* mutant: a content that does not parse counts as an output without suggestions
ParseReviewOutputDefault(content) ==
    IF ~content.json \/ IsNone(content.suggestions) THEN Some(<<>>)
    ELSE Some(content.suggestions[1])

\* serde_json::from_str::<CodexReviewOutput>(content): the field suggestions
\* is required.  Some(v) is Ok(v), None is Err.
ParseReviewOutput(content) ==
    IF ~content.json THEN None
    ELSE IF IsNone(content.suggestions) THEN None
    ELSE Some(content.suggestions[1])

\* "{}"
EmptyObject == Object(None)

\* chat_response.choices.first().map(..).unwrap_or("{}")
FirstContent(choices) == IF Len(choices) > 0 THEN choices[1] ELSE EmptyObject

\* the conversion of the parsed output, in order
ConvertAll(parsed) ==
    IF IsNone(parsed) THEN None
    ELSE Some([i \in 1..Len(parsed[1]) |-> convert_suggestion(parsed[1][i])])

\* CodexAdapter::review on what the HTTP exchange yields: Some(suggestions) is
\* Ok(suggestions), None is Err
CodexReview(response) ==
    IF ~response.sent THEN None              \* "Failed to send request to OpenAI"
    ELSE IF ~response.success THEN None      \* "OpenAI API error"
    ELSE IF IsNone(response.body) THEN None  \* "Failed to parse OpenAI response"
    ELSE ConvertAll(ParseReviewOutput(FirstContent(response.body[1])))

\* what the HTTP exchange yields: the request is cut short, the status is not
\* a success, the body is not a ChatResponse (None), or it is one with its
\* choices' contents
Responses ==
    {[sent |-> FALSE, success |-> FALSE, body |-> None],
     [sent |-> TRUE, success |-> FALSE, body |-> None],
     [sent |-> TRUE, success |-> TRUE, body |-> None],
     [sent |-> TRUE, success |-> TRUE, body |-> Some(<<>>)],
     [sent |-> TRUE, success |-> TRUE, body |-> Some(<<Garbage>>)],
     [sent |-> TRUE, success |-> TRUE, body |-> Some(<<EmptyObject>>)],
     [sent |-> TRUE, success |-> TRUE, body |-> Some(<<Object(Some(<<>>))>>)],
     [sent |-> TRUE, success |-> TRUE,
      body |-> Some(<<Object(Some(<<Raw2, Raw1>>))>>)]}

\* Orchestrator::review from "Create new review" on, given the reviewer's
\* result: the review it returns (Some) or the error (None)
ReviewOfReply(id, context, reply, created) ==
    IF IsNone(reply) THEN None
    ELSE Some(BuildReview(id, context, reply[1], created))

\* the value Orchestrator::review returns: Some(review) is Ok(review), None
\* is Err
ReviewResult(fs, idx, id, context, response, created) ==
    IF ReturnsExisting(LookupExisting(fs, idx, context), context)
    THEN LookupExisting(fs, idx, context)
    ELSE ReviewOfReply(id, context, CodexReview(response), created)

\* Orchestrator::review when no stored review is returned: the reviewer is
\* called, and the review built from its result is saved
ReviewFresh(context, made) ==
    IF IsNone(made)
    THEN \* .context("Codex review failed")?
         UNCHANGED <<files, index, nextId, reviewed>>
    ELSE /\ nextId <= MaxReviews
         /\ Save(made[1])
         /\ NoteReviewed(context, made[1].id)
         /\ nextId' = nextId + 1

\* Orchestrator::review(diff, context), the reviewer's exchange yielding response
ReviewWith(context, response) ==
    /\ IF ReturnsExisting(LookupExisting(files, index, context), context)
       THEN \* return Ok(existing)
            /\ NoteReviewed(context, LookupExisting(files, index, context)[1].id)
            /\ UNCHANGED <<files, index, nextId>>
       ELSE ReviewFresh(context, ReviewOfReply(nextId, context, CodexReview(response), now))
    /\ UNCHANGED <<pgReviews, pgSuggestions, now, lastSaved, subject, applied, suppVars,
                   advisorVars, pgCallVars,
                   jsonCallVars>>

\* the exchanges drawn while decisions and rules interleave with reviews
PipelineResponses ==
    {[sent |-> FALSE, success |-> FALSE, body |-> None],
     [sent |-> TRUE, success |-> TRUE, body |-> Some(<<Object(Some(<<>>))>>)],
     [sent |-> TRUE, success |-> TRUE, body |-> Some(<<Object(Some(<<Raw1>>))>>)]}

\* Orchestrator::review(diff, context)
Review(context) ==
    /\ \E response \in PipelineResponses : ReviewWith(context, response)
    /\ UNCHANGED called

\* make_decision, from the found item on: record the decision, then
\* "Update status if all decided"
\* mutant: the decision is recorded and the status left as loaded
DecideItemKeepStatus(review, i, suggestion_id, decision, reason, user, clock) ==
    [review EXCEPT !.suggestions[i].decision =
        Some([suggestion_id |-> suggestion_id, decision |-> decision,
              reason |-> reason, decided_by |-> user, decided_at |-> clock])]

DecideItem(review, i, suggestion_id, decision, reason, user, clock) ==
    LET decided == [review EXCEPT !.suggestions[i].decision =
                        Some([suggestion_id |-> suggestion_id,
                              decision |-> decision,
                              reason |-> reason,
                              decided_by |-> user,
                              decided_at |-> clock])]
    IN  IF is_fully_decided(decided)
        THEN [decided EXCEPT !.status = "Decided"]
        ELSE decided

\* the items ".find(|s| s.suggestion.id == suggestion_id)" looks through
DecideHits(review, suggestion_id) ==
    {i \in 1..Len(review.suggestions) :
        review.suggestions[i].suggestion.id = suggestion_id}

\* mutant: an unknown suggestion id leaves the review as loaded, to be saved
DecideReviewLenient(review, suggestion_id, accept, reject, reason, user, clock) ==
    IF ~accept /\ ~reject THEN None
    ELSE IF DecideHits(review, suggestion_id) = {} THEN Some(review)
    ELSE Some(DecideItem(review, Min(DecideHits(review, suggestion_id)),
                         suggestion_id, IF accept THEN "Accepted" ELSE "Rejected",
                         reason, user, clock))

\* make_decision once the review is loaded: the review it saves, or none
\* when it returns an error
DecideReview(review, suggestion_id, accept, reject, reason, user, clock) ==
    IF ~accept /\ ~reject THEN None                \* "Must specify --accept or --reject"
    ELSE IF DecideHits(review, suggestion_id) = {} THEN None   \* "Suggestion not found"
    ELSE Some(DecideItem(review, Min(DecideHits(review, suggestion_id)),
                         suggestion_id, IF accept THEN "Accepted" ELSE "Rejected",
                         reason, user, clock))

\* make_decision from the result of load_by_pr on
DecideOutcome(found, suggestion_id, accept, reject, reason, user, clock) ==
    IF IsNone(found) THEN None                     \* "No review found for PR"
    ELSE DecideReview(found[1], suggestion_id, accept, reject, reason, user, clock)

\* "ledger.save(&review)?" of make_decision, reached with no error before
DecideSave(outcome) ==
    IF IsNone(outcome) THEN UNCHANGED <<files, index>> ELSE Save(outcome[1])

\* make_decision: what it writes
DecideWrite(repo, pr, suggestion_id, accept, reject, reason, user) ==
    DecideSave(DecideOutcome(JsonLoadByPr(files, index, repo, pr), suggestion_id,
                             accept, reject, reason, user, now))

\* make_decision(ledger_path, repo, pr, suggestion_id, accept, reject, reason, user)
Decide(repo, pr, suggestion_id, accept, reject, reason, user) ==
        /\ DecideWrite(repo, pr, suggestion_id, accept, reject, reason, user)
        /\ UNCHANGED <<pgReviews, pgSuggestions, nextId, now, reviewed,
                       lastSaved, subject, applied, called, suppVars,
                   advisorVars, pgCallVars,
                   jsonCallVars>>

\* a caller loads a stored review, runs RulesEngine::apply on it and saves it
ApplyRules(id) ==
    /\ id \in DOMAIN files
    /\ Save(Apply(PipelineRules, JsonLoad(files, id)[1], now).review)
    /\ UNCHANGED <<pgReviews, pgSuggestions, nextId, now, reviewed,
                   lastSaved, subject, applied, called, suppVars,
                   advisorVars, pgCallVars,
                   jsonCallVars>>

Next ==
    \/ \E context \in Contexts : Review(context)
    \/ \E repo \in Repos, pr \in PrInputs, sid \in SuggestionIds,
          accept \in BOOLEAN, reject \in BOOLEAN, reason \in Reasons, user \in Users :
          /\ ~(accept /\ reject)
          /\ Decide(repo, pr, sid, accept, reject, reason, user)
    \/ \E id \in 1..MaxReviews : ApplyRules(id)

Spec == Init /\ [][Next]_vars

----------------------------------------------------------------------------
(* Orchestrator::review alone, over every exchange with the reviewer *)

\* the character U+0060, which no string of this language can hold
Tick == "<U+0060>"

\* CodexAdapter::build_system_prompt (the text, as one piece)
build_system_prompt == <<"You are an expert code reviewer. [..]">>

\* "PR #{}" or "commit {}" with the first seven characters of the commit
\* (the commits drawn have at most seven)
PromptTarget(context) ==
    IF IsSome(context.pr_number)
    THEN <<"PR #">> \o NatToString(context.pr_number[1])
    ELSE <<"commit ", context.commit_sha>>

\* CodexAdapter::build_user_prompt: the pieces of the text, in order
build_user_prompt(diff, context) ==
    <<"Review this diff from ">> \o PromptTarget(context)
        \o <<" in ", context.repo, ":\n\n", Tick, Tick, Tick, "diff\n", diff,
             "\n", Tick, Tick, Tick>>

\* the ChatRequest CodexAdapter::review sends
ChatRequest(diff, context) ==
    [model |-> "gpt-4o",
     messages |-> <<[role |-> "system", content |-> build_system_prompt],
                    [role |-> "user", content |-> build_user_prompt(diff, context)]>>]

\* the diff under review
Diff == "diff --git a/src/main.rs b/src/main.rs"

\* review(diff, context) is called and returns
ReviewCall(context, response) ==
    /\ ReviewWith(context, response)
    /\ called' = Some([context |-> context,
                       response |-> response,
                       request |->
                          IF ReturnsExisting(LookupExisting(files, index, context),
                                             context)
                          THEN None
                          ELSE Some(ChatRequest(Diff, context)),
                       invoked |-> ~ReturnsExisting(LookupExisting(files, index, context),
                                                    context),
                       result |-> ReviewResult(files, index, nextId, context,
                                               response, now),
                       files |-> files,
                       index |-> index])

NextReview == \E context \in Contexts, response \in Responses : ReviewCall(context, response)

SpecReview == Init /\ [][NextReview]_vars

----------------------------------------------------------------------------
(* ledger/postgres.rs: PostgresLedger over the tables reviews and suggestions *)

status_to_str(status) ==
    CASE status = "Pending" -> "pending" [] status = "Decided" -> "decided"
      [] status = "Applied" -> "applied" [] status = "Stale" -> "stale"

str_to_status(s) ==
    CASE s = "pending" -> "Pending" [] s = "decided" -> "Decided"
      [] s = "applied" -> "Applied" [] s = "stale" -> "Stale"
      [] OTHER -> "Pending"

suggestion_type_to_str(t) ==
    CASE t = "Security" -> "security" [] t = "Performance" -> "performance"
      [] t = "Style" -> "style" [] t = "Logic" -> "logic"
      [] t = "Documentation" -> "documentation"

str_to_suggestion_type(s) ==
    CASE s = "security" -> "Security" [] s = "performance" -> "Performance"
      [] s = "style" -> "Style" [] s = "logic" -> "Logic"
      [] s = "documentation" -> "Documentation"
      [] OTHER -> "Logic"

severity_to_str(s) ==
    CASE s = "Critical" -> "critical" [] s = "High" -> "high"
      [] s = "Medium" -> "medium" [] s = "Low" -> "low"

str_to_severity(s) ==
    CASE s = "critical" -> "Critical" [] s = "high" -> "High"
      [] s = "medium" -> "Medium" [] s = "low" -> "Low"
      [] OTHER -> "Low"

decision_to_str(d) ==
    CASE d = "Accepted" -> "accepted" [] d = "Rejected" -> "rejected"
      [] d = "Deferred" -> "deferred"

str_to_decision(s) ==
    CASE s = "accepted" -> "Accepted" [] s = "rejected" -> "Rejected"
      [] s = "deferred" -> "Deferred"
      [] OTHER -> "Deferred"

\* mutant: ON CONFLICT (id) DO NOTHING
PgInsertOnce(rows, review) ==
    IF review.id \in DOMAIN rows THEN rows
    ELSE [i \in (DOMAIN rows) \cup {review.id} |->
            IF i = review.id
            THEN [id |-> review.id, pr_number |-> review.pr_number,
                  repo |-> review.repo, commit_sha |-> review.commit_sha,
                  created_at |-> review.created_at,
                  status |-> status_to_str(review.status)]
            ELSE rows[i]]

\* INSERT INTO reviews .. ON CONFLICT (id) DO UPDATE SET status = EXCLUDED.status
PgUpsertReview(rows, review) ==
    IF review.id \in DOMAIN rows
    THEN [rows EXCEPT ![review.id].status = status_to_str(review.status)]
    ELSE [i \in (DOMAIN rows) \cup {review.id} |->
            IF i = review.id
            THEN [id |-> review.id, pr_number |-> review.pr_number,
                  repo |-> review.repo, commit_sha |-> review.commit_sha,
                  created_at |-> review.created_at,
                  status |-> status_to_str(review.status)]
            ELSE rows[i]]

\* DELETE FROM suggestions WHERE review_id = $1
PgDeleteSuggestions(table, id) == SelectSeq(table, LAMBDA r : r.review_id # id)

\* the row one INSERT INTO suggestions writes for an item
PgSuggestionRow(id, item) ==
    LET s == item.suggestion
        d == item.decision
    IN  [review_id |-> id,
         external_id |-> s.id,
         suggestion_type |-> suggestion_type_to_str(s.suggestion_type),
         severity |-> severity_to_str(s.severity),
         file_path |-> s.location.file,
         line_start |-> s.location.line_start,
         line_end |-> s.location.line_end,
         description |-> s.description,
         proposed_fix |-> s.proposed_fix,
         human_decision |-> IF IsSome(d) THEN Some(decision_to_str(d[1].decision)) ELSE None,
         human_reason |-> IF IsSome(d) THEN d[1].reason ELSE None,
         decided_by |-> IF IsSome(d) THEN Some(d[1].decided_by) ELSE None,
         decided_at |-> IF IsSome(d) THEN Some(d[1].decided_at) ELSE None]

\* the loop "for item in &review.suggestions" of PostgresLedger::save
PgInsertSuggestions(table, review) ==
    table \o [i \in 1..Len(review.suggestions) |->
                PgSuggestionRow(review.id, review.suggestions[i])]

\* PostgresLedger::save: the committed tables
PgSaveReviews(rows, review) == PgUpsertReview(rows, review)
PgSaveSuggestions(table, review) ==
    PgInsertSuggestions(PgDeleteSuggestions(table, review.id), review)

\* collation of the suggestion ids in use
ExternalIdRank(id) ==
    CASE id = "S001" -> 1 [] id = "S002" -> 2 [] OTHER -> 3

\* ORDER BY external_id (rows of equal id stay in table order)
RECURSIVE OrderByExternalId(_)
OrderByExternalId(rows) ==
    IF Len(rows) = 0 THEN <<>>
    ELSE LET least == Min({ExternalIdRank(rows[i].external_id) : i \in 1..Len(rows)})
             k == Min({i \in 1..Len(rows) : ExternalIdRank(rows[i].external_id) = least})
         IN  <<rows[k]>> \o
             OrderByExternalId(SubSeq(rows, 1, k - 1) \o SubSeq(rows, k + 1, Len(rows)))

\* the SuggestionItem build_review_from_row makes of a suggestions row
PgItemOfRow(srow, clock) ==
    [suggestion |->
        [id |-> srow.external_id,
         suggestion_type |-> str_to_suggestion_type(srow.suggestion_type),
         severity |-> str_to_severity(srow.severity),
         location |-> [file |-> srow.file_path, line_start |-> srow.line_start,
                       line_end |-> srow.line_end],
         description |-> srow.description,
         proposed_fix |-> srow.proposed_fix],
     decision |->
        IF IsSome(srow.human_decision)
        THEN Some([suggestion_id |-> srow.external_id,
                   decision |-> str_to_decision(srow.human_decision[1]),
                   reason |-> srow.human_reason,
                   decided_by |-> IF IsSome(srow.decided_by)
                                  THEN srow.decided_by[1] ELSE "",
                   decided_at |-> IF IsSome(srow.decided_at)
                                  THEN srow.decided_at[1] ELSE clock])
        ELSE None]

\* PostgresLedger::build_review_from_row
build_review_from_row(row, table, clock) ==
    LET suggestion_rows ==
            OrderByExternalId(SelectSeq(table, LAMBDA r : r.review_id = row.id))
    IN  [id |-> row.id,
         pr_number |-> row.pr_number,
         repo |-> row.repo,
         commit_sha |-> row.commit_sha,
         created_at |-> row.created_at,
         status |-> str_to_status(row.status),
         suggestions |-> [i \in 1..Len(suggestion_rows) |->
                             PgItemOfRow(suggestion_rows[i], clock)]]

\* PostgresLedger::load
PgLoad(rows, table, id, clock) ==
    IF id \in DOMAIN rows
    THEN Some(build_review_from_row(rows[id], table, clock))
    ELSE None

\* WHERE repo = $1 AND pr_number = $2
PgPrRows(rows, repo, pr) ==
    {i \in DOMAIN rows : rows[i].repo = repo /\ rows[i].pr_number = Some(pr)}

\* WHERE repo = $1 AND commit_sha = $2
PgCommitRows(rows, repo, sha) ==
    {i \in DOMAIN rows : rows[i].repo = repo /\ rows[i].commit_sha = sha}

\* ORDER BY created_at DESC LIMIT 1: the rows the query can return, any of
\* those created last
PgNewest(rows, ids) ==
    {i \in ids : \A j \in ids : rows[i].created_at >= rows[j].created_at}

\* fetch_optional and build_review_from_row: the reviews the lookup can return
PgFetchOptional(rows, table, ids, clock) ==
    IF ids = {} THEN {None}
    ELSE {Some(build_review_from_row(rows[i], table, clock)) : i \in ids}

\* PostgresLedger::load_by_pr: what it can return
PgLoadByPr(rows, table, repo, pr, clock) ==
    PgFetchOptional(rows, table, PgNewest(rows, PgPrRows(rows, repo, pr)), clock)

\* PostgresLedger::load_by_commit: what it can return
PgLoadByCommit(rows, table, repo, sha, clock) ==
    PgFetchOptional(rows, table, PgNewest(rows, PgCommitRows(rows, repo, sha)), clock)

\* ORDER BY created_at DESC: the ids of the rows, the newest first (rows
\* created at the same time, which the database may give in any order, come
\* by id)
RECURSIVE OrderByCreatedDesc(_, _)
OrderByCreatedDesc(rows, ids) ==
    IF ids = {} THEN <<>>
    ELSE <<Min(PgNewest(rows, ids))>>
         \o OrderByCreatedDesc(rows, ids \ {Min(PgNewest(rows, ids))})

\* fetch_all and the loop over build_review_from_row
PgFetchAll(rows, table, ordered, clock) ==
    [k \in 1..Len(ordered) |-> build_review_from_row(rows[ordered[k]], table, clock)]

\* PostgresLedger::list_pending
PgListPending(rows, table, clock) ==
    PgFetchAll(rows, table,
               OrderByCreatedDesc(rows, {i \in DOMAIN rows : rows[i].status = "pending"}),
               clock)

\* PostgresLedger::list_by_repo
PgListByRepo(rows, table, repo, clock) ==
    PgFetchAll(rows, table,
               OrderByCreatedDesc(rows, {i \in DOMAIN rows : rows[i].repo = repo}),
               clock)

----------------------------------------------------------------------------
(* The ledgers alone: any sequence of save() calls, each save given to a   *)
(* JsonLedger and to a PostgresLedger                                      *)

\* PostgresLedger::save, one transaction
PgSave(review) ==
    /\ pgReviews' = PgSaveReviews(pgReviews, review)
    /\ pgSuggestions' = PgSaveSuggestions(pgSuggestions, review)

\* a decision as make_decision records it
HumanRecord(suggestion_id) ==
    [suggestion_id |-> suggestion_id, decision |-> "Rejected", reason |-> None,
     decided_by |-> "alice", decided_at |-> 0]

Undecided(suggestion) == [suggestion |-> suggestion, decision |-> None]
Decided(suggestion) ==
    [suggestion |-> suggestion, decision |-> Some(HumanRecord(suggestion.id))]

\* the suggestion lists of the reviews saved
LedgerItemLists ==
    {<<>>, <<Undecided(Sugg1)>>, <<Undecided(Sugg2), Decided(Sugg1)>>}

LedgerStatuses == {"Pending", "Decided"}

\* the identity of a review (what Review::new fixes) never changes once stored
SameIdentity(review, fs) ==
    review.id \in DOMAIN fs =>
        LET stored == JsonLoad(fs, review.id)[1]
        IN  /\ stored.repo = review.repo
            /\ stored.pr_number = review.pr_number
            /\ stored.commit_sha = review.commit_sha
            /\ stored.created_at = review.created_at

\* Ledger::save(review), called directly
LedgerSave(review) ==
    /\ SameIdentity(review, files)
    /\ Save(review)
    /\ PgSave(review)
    /\ lastSaved' = Some([review |-> review, again |-> review.id \in DOMAIN files])
    /\ UNCHANGED <<nextId, now, reviewed, subject, applied, called, suppVars,
                   advisorVars, pgCallVars,
                   jsonCallVars>>

NextLedger ==
    \E id \in 1..MaxReviews, context \in Contexts,
       status \in LedgerStatuses, items \in LedgerItemLists :
        LedgerSave([NewReview(id, context, id) EXCEPT
                        !.status = status, !.suggestions = items])

SpecLedger == Init /\ [][NextLedger]_vars

----------------------------------------------------------------------------
(* The relational ledger under concurrency: one save(), statement by        *)
(* statement in its transaction, while load() runs its two queries on       *)
(* another connection of the pool                                            *)

\* the statements save(review) executes before tx.commit(): the upsert, the
\* DELETE and one INSERT per item
TxStatements(review) == 2 + Len(review.suggestions)

\* the tables as the transaction itself reads them after t.done statements
TxReviews(rows, t) ==
    IF t.done >= 1 THEN PgUpsertReview(rows, t.review) ELSE rows
TxSuggestions(table, t) ==
    IF t.done >= 2
    THEN PgDeleteSuggestions(table, t.review.id)
            \o [i \in 1..(t.done - 2) |->
                   PgSuggestionRow(t.review.id, t.review.suggestions[i])]
    ELSE table

\* mutant: the statements run on the pool, each committed as it ends
SeenUncommitted(committed, own) == own

\* what a query on another connection reads while the transaction begun by
\* pool.begin() is open: the database runs at READ COMMITTED, so none of the
\* transaction's writes before tx.commit()
SeenByOthers(committed, own) == committed

\* the tables a query of load() reads
LoadedReviews ==
    IF IsSome(pgTx) THEN SeenByOthers(pgReviews, TxReviews(pgReviews, pgTx[1]))
    ELSE pgReviews
LoadedSuggestions ==
    IF IsSome(pgTx)
    THEN SeenByOthers(pgSuggestions, TxSuggestions(pgSuggestions, pgTx[1]))
    ELSE pgSuggestions

\* what load() returned; "during" is history: the statements the save in
\* flight had executed by then
LoadOutput(result) ==
    [op |-> "load", result |-> result, count |-> None,
     during |-> IF IsSome(pgTx) THEN Some(pgTx[1].done) ELSE None]

\* save: "let mut tx = self.pool.begin().await?" (one save at a time)
TxBegin(review) ==
    /\ IsNone(pgTx)
    /\ pgTx' = Some([review |-> review, done |-> 0])
    /\ UNCHANGED <<files, index, pgReviews, pgSuggestions, nextId, now, reviewed,
                   lastSaved, subject, applied, called, suppVars, advisorVars,
                   pgLoad, pgOut,
                   jsonCallVars>>

\* save: the next statement, executed on the transaction
TxExecute ==
    /\ IsSome(pgTx)
    /\ pgTx[1].done < TxStatements(pgTx[1].review)
    /\ pgTx' = Some([pgTx[1] EXCEPT !.done = @ + 1])
    /\ UNCHANGED <<files, index, pgReviews, pgSuggestions, nextId, now, reviewed,
                   lastSaved, subject, applied, called, suppVars, advisorVars,
                   pgLoad, pgOut,
                   jsonCallVars>>

\* save: "tx.commit().await?" succeeds
TxCommit ==
    /\ IsSome(pgTx)
    /\ pgTx[1].done = TxStatements(pgTx[1].review)
    /\ pgReviews' = TxReviews(pgReviews, pgTx[1])
    /\ pgSuggestions' = TxSuggestions(pgSuggestions, pgTx[1])
    /\ lastSaved' = Some([review |-> pgTx[1].review,
                          again |-> pgTx[1].review.id \in DOMAIN pgReviews])
    /\ pgTx' = None
    /\ UNCHANGED <<files, index, nextId, now, reviewed, subject, applied, called,
                   suppVars, advisorVars, pgLoad, pgOut,
                   jsonCallVars>>

\* save: a statement or the commit fails; "?" returns and the transaction,
\* dropped, is rolled back
TxFail ==
    /\ IsSome(pgTx)
    /\ pgTx' = None
    /\ UNCHANGED <<files, index, pgReviews, pgSuggestions, nextId, now, reviewed,
                   lastSaved, subject, applied, called, suppVars, advisorVars,
                   pgLoad, pgOut,
                   jsonCallVars>>

\* load(id): the query on reviews; with no row it returns Ok(None)
LoadRow(id) ==
    /\ IsNone(pgLoad)
    /\ IF id \in DOMAIN LoadedReviews
       THEN /\ pgLoad' = Some([id |-> id, row |-> LoadedReviews[id]])
            /\ UNCHANGED pgOut
       ELSE /\ pgOut' = Some(LoadOutput(None))
            /\ UNCHANGED pgLoad
    /\ UNCHANGED <<files, index, pgReviews, pgSuggestions, nextId, now, reviewed,
                   lastSaved, subject, applied, called, suppVars, advisorVars,
                   pgTx,
                   jsonCallVars>>

\* load(id): build_review_from_row, with its query on suggestions
LoadRest ==
    /\ IsSome(pgLoad)
    /\ pgOut' = Some(LoadOutput(Some(build_review_from_row(pgLoad[1].row,
                                                           LoadedSuggestions, now))))
    /\ pgLoad' = None
    /\ UNCHANGED <<files, index, pgReviews, pgSuggestions, nextId, now, reviewed,
                   lastSaved, subject, applied, called, suppVars, advisorVars,
                   pgTx,
                   jsonCallVars>>

\* the review saved and loaded, and what save() is given
TxReviewIds == {1}
TxContext == [pr_number |-> Some(1), repo |-> "owner/repo", commit_sha |-> "abc123"]
TxItemLists == {<<>>, <<Undecided(Sugg1)>>, <<Undecided(Sugg2), Decided(Sugg1)>>}
TxInputs ==
    {[NewReview(id, TxContext, 0) EXCEPT
         !.status = status, !.suggestions = items] :
        id \in TxReviewIds, status \in {"Pending", "Decided"}, items \in TxItemLists}

NextTx ==
    \/ \E review \in TxInputs : TxBegin(review)
    \/ TxExecute
    \/ TxCommit
    \/ TxFail
    \/ \E id \in TxReviewIds : LoadRow(id)
    \/ LoadRest

SpecTx == Init /\ [][NextTx]_vars

----------------------------------------------------------------------------
(* The relational ledger alone: save() and mark_stale() *)

\* the WHERE clause of mark_stale
StaleTarget(row, repo, pr_number, except_id) ==
    /\ row.repo = repo
    /\ row.pr_number = Some(pr_number)
    /\ row.id # except_id
    /\ row.status = "pending"

\* mutant: the UPDATE does not look at the status
PgMarkStaleAnyStatus(rows, repo, pr_number, except_id) ==
    [id \in DOMAIN rows |->
        IF /\ rows[id].repo = repo
           /\ rows[id].pr_number = Some(pr_number)
           /\ rows[id].id # except_id
        THEN [rows[id] EXCEPT !.status = "stale"]
        ELSE rows[id]]

\* UPDATE reviews SET status = 'stale' WHERE ..
PgMarkStale(rows, repo, pr_number, except_id) ==
    [id \in DOMAIN rows |->
        IF StaleTarget(rows[id], repo, pr_number, except_id)
        THEN [rows[id] EXCEPT !.status = "stale"]
        ELSE rows[id]]

\* result.rows_affected(): the rows the UPDATE changed
RowsAffected(before, after) ==
    Cardinality({id \in DOMAIN before : after[id] # before[id]})

\* what mark_stale returned
StaleOutput(count) ==
    [op |-> "mark_stale", result |-> None, count |-> Some(count), during |-> None]

\* PostgresLedger::mark_stale(repo, pr_number, except_id)
MarkStale(repo, pr_number, except_id) ==
    /\ pgReviews' = PgMarkStale(pgReviews, repo, pr_number, except_id)
    /\ pgOut' = Some(StaleOutput(RowsAffected(pgReviews, pgReviews')))
    /\ UNCHANGED <<files, index, pgSuggestions, nextId, now, reviewed, lastSaved,
                   subject, applied, called, suppVars, advisorVars, pgTx, pgLoad,
                   jsonCallVars>>

\* PostgresLedger::save(review), as one step
PgSaveCall(review) ==
    /\ PgSave(review)
    /\ UNCHANGED <<files, index, nextId, now, reviewed, lastSaved, subject, applied,
                   called, suppVars, advisorVars, pgCallVars,
                   jsonCallVars>>

\* the reviews saved: those of the pipeline's contexts, one of another pull
\* request and one of another repository
StaleContexts ==
    Contexts \cup
    {[pr_number |-> Some(2), repo |-> "owner/repo", commit_sha |-> "abc123"],
     [pr_number |-> Some(1), repo |-> "other/repo", commit_sha |-> "abc123"]}

NextStale ==
    \/ \E id \in 1..MaxReviews, context \in StaleContexts, status \in LedgerStatuses :
          PgSaveCall([NewReview(id, context, id) EXCEPT
                         !.status = status, !.suggestions = <<Undecided(Sugg1)>>])
    \/ \E repo \in Repos, pr \in PrInputs, except_id \in 1..MaxReviews :
          MarkStale(repo, pr, except_id)

SpecStale == Init /\ [][NextStale]_vars

----------------------------------------------------------------------------
(* The decide command and the rules pass on a JSON ledger that holds        *)
(* reviews of every status, stored there by callers of Ledger::save         *)

\* the suggestion lists of the reviews stored before a decision
DecideItemLists ==
    {<<Undecided(Sugg1)>>, <<Undecided(Sugg2), Undecided(Sugg1)>>,
     <<Undecided(Sugg2), Decided(Sugg1)>>}

DecideSuggestionIds == {"S001", "S002", "S999"}

\* --accept / --reject as the command line gives them
DecideFlags == {<<TRUE, FALSE>>, <<FALSE, TRUE>>, <<FALSE, FALSE>>}

\* the reviews callers store: the first of any status with any of the lists,
\* of a pull request or of a push; the later ones pending or applied with one
\* open suggestion
DecideStored ==
    {r \in {[NewReview(id, context, id) EXCEPT
                !.status = status, !.suggestions = items] :
                id \in 1..MaxReviews,
                context \in {c \in Contexts : c.commit_sha = "abc123"},
                status \in ReviewStatus,
                items \in DecideItemLists} :
        r.id = 1 \/ (Len(r.suggestions) = 1 /\ r.status \in {"Pending", "Applied"})}

\* what is known of a call once it returned: its arguments, whether it
\* returned Ok, and the ledger before it
CallRecord(op, repo, pr, id, suggestion_id, flags, ok) ==
    [op |-> op, repo |-> repo, pr |-> pr, id |-> id,
     suggestion_id |-> suggestion_id, accept |-> flags[1], reject |-> flags[2],
     ok |-> ok, files |-> files, index |-> index]

\* a caller of the library stores a review under the next id
StoreReview(review) ==
    /\ review.id = Cardinality(DOMAIN files) + 1
    /\ Save(review)
    /\ called' = Some(CallRecord("save", review.repo, 0, review.id, "", <<FALSE, FALSE>>, TRUE))
    /\ UNCHANGED <<pgReviews, pgSuggestions, nextId, now, reviewed, lastSaved,
                   subject, applied, suppVars, advisorVars, pgCallVars,
                   jsonCallVars>>

\* make_decision is called and returns
DecideCall(repo, pr, suggestion_id, accept, reject, reason, user) ==
    /\ DecideWrite(repo, pr, suggestion_id, accept, reject, reason, user)
    /\ called' = Some(CallRecord("decide", repo, pr, 0, suggestion_id, <<accept, reject>>,
                         IsSome(DecideOutcome(JsonLoadByPr(files, index, repo, pr),
                                              suggestion_id, accept, reject,
                                              reason, user, now))))
    /\ UNCHANGED <<pgReviews, pgSuggestions, nextId, now, reviewed, lastSaved,
                   subject, applied, suppVars, advisorVars, pgCallVars,
                   jsonCallVars>>

\* a caller loads the review id, runs RulesEngine::apply on it and saves it
ApplyCall(id) ==
    /\ id \in DOMAIN files
    /\ Save(Apply(PipelineRules, JsonLoad(files, id)[1], now).review)
    /\ called' = Some(CallRecord("apply", "", 0, id, "", <<FALSE, FALSE>>, TRUE))
    /\ UNCHANGED <<pgReviews, pgSuggestions, nextId, now, reviewed, lastSaved,
                   subject, applied, suppVars, advisorVars, pgCallVars,
                   jsonCallVars>>

NextDecide ==
    \/ \E review \in DecideStored : StoreReview(review)
    \/ \E repo \in Repos, pr \in PrInputs, sid \in DecideSuggestionIds,
          flags \in DecideFlags, reason \in Reasons, user \in Users :
          DecideCall(repo, pr, sid, flags[1], flags[2], reason, user)
    \/ \E id \in 1..MaxReviews : ApplyCall(id)

SpecDecide == Init /\ [][NextDecide]_vars

----------------------------------------------------------------------------
(* JsonLedger::save step by step: the processes that share the directory   *)
(* each write the review file, read index.json and write it back, and the  *)
(* reads and writes of the index can fail                                   *)

MaxSaves == 2       \* save() calls of one process

\* the reviews the processes save
RaceReviews ==
    {[NewReview(id, context, id) EXCEPT
         !.status = status, !.suggestions = <<Undecided(Sugg1)>>] :
        id \in 1..MaxReviews,
        context \in {c \in Contexts : IsSome(c.pr_number) /\ c.commit_sha = "abc123"},
        status \in {"Pending", "Decided"}}

\* another process is inside save()
OthersInFlight(p) == \E q \in Procs \ {p} : savers[q].pc # "idle"

\* "fs::write(&path, content)" of the review; its failure is not drawn
SaveBegin(p, review) ==
    /\ savers[p].pc = "idle"
    /\ Len(savers[p].results) < MaxSaves
    /\ files' = SaveFilesOf(files, review)
    /\ savers' = [savers EXCEPT ![p] = [pc |-> "written", review |-> Some(review),
                                        loaded |-> None, results |-> @.results]]
    /\ overlapped' = (overlapped \/ OthersInFlight(p))
    /\ UNCHANGED <<index, pgReviews, pgSuggestions, nextId, now, reviewed,
                   lastSaved, subject, applied, called, suppVars, advisorVars,
                   pgCallVars, indexTorn>>

\* "let mut index = self.load_index()?" returns the entries
SaveLoadIndex(p) ==
    /\ savers[p].pc = "written"
    /\ ~indexTorn
    /\ savers' = [savers EXCEPT ![p].pc = "loaded",
                                ![p].loaded = Some(load_index(index))]
    /\ UNCHANGED <<files, index, pgReviews, pgSuggestions, nextId, now, reviewed,
                   lastSaved, subject, applied, called, suppVars, advisorVars,
                   pgCallVars, indexTorn, overlapped>>

\* "self.load_index()?" fails: the document cannot be read, or it is cut
\* and does not parse; save returns the error
SaveLoadIndexFail(p) ==
    /\ savers[p].pc = "written"
    /\ savers' = [savers EXCEPT ![p] = Idle(Append(@.results, "err"))]
    /\ UNCHANGED <<files, index, pgReviews, pgSuggestions, nextId, now, reviewed,
                   lastSaved, subject, applied, called, suppVars, advisorVars,
                   pgCallVars, indexTorn, overlapped>>

\* retain, push and "self.save_index(&index)?" on the entries read; save
\* returns Ok
SaveWriteIndex(p) ==
    /\ savers[p].pc = "loaded"
    /\ index' = save_index(PushEntry(RetainOthers(savers[p].loaded[1],
                                                  savers[p].review[1].id),
                                     savers[p].review[1]))
    /\ indexTorn' = FALSE
    /\ savers' = [savers EXCEPT ![p] = Idle(Append(@.results, "ok"))]
    /\ UNCHANGED <<files, pgReviews, pgSuggestions, nextId, now, reviewed,
                   lastSaved, subject, applied, called, suppVars, advisorVars,
                   pgCallVars, overlapped>>

\* "self.save_index(&index)?" fails. fs::write opens the file truncating it
\* and then writes: it fails before the file is opened (cut = FALSE, the
\* document is as it was) or while it writes (cut = TRUE, the document is
\* what was written so far, which does not parse); save returns the error
SaveWriteIndexFail(p, cut) ==
    /\ savers[p].pc = "loaded"
    /\ index' = IF cut THEN <<>> ELSE index
    /\ indexTorn' = (indexTorn \/ cut)
    /\ savers' = [savers EXCEPT ![p] = Idle(Append(@.results, "err"))]
    /\ UNCHANGED <<files, pgReviews, pgSuggestions, nextId, now, reviewed,
                   lastSaved, subject, applied, called, suppVars, advisorVars,
                   pgCallVars, overlapped>>

NextIndex ==
    \/ \E p \in Procs, review \in RaceReviews : SaveBegin(p, review)
    \/ \E p \in Procs : SaveLoadIndex(p)
    \/ \E p \in Procs : SaveLoadIndexFail(p)
    \/ \E p \in Procs : SaveWriteIndex(p)
    \/ \E p \in Procs, cut \in BOOLEAN : SaveWriteIndexFail(p, cut)

SpecIndex == Init /\ [][NextIndex]_vars

----------------------------------------------------------------------------
(* adapters/claude.rs: extract_json on the text of the advisor's response  *)

\* the code fence, and the fence that opens a json block
Fence == <<Tick, Tick, Tick>>
FenceJson == <<Tick, Tick, Tick, "j", "s", "o", "n">>

\* str::rfind(c): position of the last occurrence of the character, 0 if none
RFind(s, c) ==
    IF \E i \in 1..Len(s) : s[i] = c
    THEN Max({i \in 1..Len(s) : s[i] = c})
    ELSE 0

\* what a call leaves: the string it returns, or a panic
Returned(text) == [panic |-> FALSE, text |-> text]
Panicked == [panic |-> TRUE, text |-> <<>>]

\* "content[start..=end]" with 1-based positions: a range that starts more
\* than one past its end is a panic of the slice index
SliceInclusive(content, start, end) ==
    IF start > end + 1 THEN Panicked ELSE Returned(SubSeq(content, start, end))

\* the raw JSON object of extract_json and its fall-through
ExtractBraces(content, start, end) ==
    IF start # 0 /\ end # 0
    THEN SliceInclusive(content, start, end)
    ELSE Returned(content)

\* the code block of extract_json: rest is content[json_start..], end the
\* position of the closing fence in it
ExtractBlock(content, rest, end) ==
    IF end # 0
    THEN Returned(Trim(SubSeq(rest, 1, end - 1)))
    ELSE ExtractBraces(content, Find(content, <<"{">>), RFind(content, "}"))

\* extract_json once the opening fence is looked for
ExtractFrom(content, start, rest) ==
    IF start # 0
    THEN ExtractBlock(content, rest, Find(rest, Fence))
    ELSE ExtractBraces(content, Find(content, <<"{">>), RFind(content, "}"))

\* extract_json(content)
extract_json(content) ==
    ExtractFrom(content, Find(content, FenceJson),
                SubSeq(content, Find(content, FenceJson) + 7, Len(content)))

MaxTokens == 4      \* pieces a response is put together from

\* the pieces of the responses
AdviceTokens == {FenceJson, Fence, <<"{">>, <<"}">>, <<" ">>, <<"a">>}

RECURSIVE Flatten(_)
Flatten(pieces) ==
    IF pieces = <<>> THEN <<>> ELSE Head(pieces) \o Flatten(Tail(pieces))

\* the responses of the advisor
AdviceTexts ==
    {Flatten(pieces) :
        pieces \in UNION {[1..n -> AdviceTokens] : n \in 0..MaxTokens}}

InitExtract ==
    /\ files = <<>>
    /\ index = <<>>
    /\ pgReviews = <<>>
    /\ pgSuggestions = <<>>
    /\ nextId = 1
    /\ now = 0
    /\ reviewed = [c \in Contexts |-> None]
    /\ lastSaved = None
    /\ subject = None
    /\ applied = <<>>
    /\ called = None
    /\ suppItems = <<>>
    /\ tree = <<>>
    /\ swept = None
    /\ advice \in {Some(text) : text \in AdviceTexts}
    /\ extracted = None
    /\ pgTx = None
    /\ pgLoad = None
    /\ pgOut = None
    /\ savers = [p \in Procs |-> Idle(<<>>)]
    /\ indexTorn = FALSE
    /\ overlapped = FALSE

\* "let json_content = extract_json(content)?" of parse_response
ExtractCall ==
    /\ IsSome(advice)
    /\ IsNone(extracted)
    /\ extracted' = Some(extract_json(advice[1]))
    /\ UNCHANGED <<files, index, pgReviews, pgSuggestions, nextId, now, reviewed,
                   lastSaved, subject, applied, called, suppVars, advice,
                   pgCallVars,
                   jsonCallVars>>

NextExtract == ExtractCall

SpecExtract == InitExtract /\ [][NextExtract]_vars

----------------------------------------------------------------------------
(* The rules engine alone: RulesEngine::apply on a review drawn from the    *)
(* inputs below, then applied again to its own result                       *)

MaxApplies == 2     \* consecutive apply calls on the review

\* "src/util.rs"
P_util == <<"s", "r", "c", "/", "u", "t", "i", "l", ".", "r", "s">>

Sugg3 ==
    [id |-> "S003", suggestion_type |-> "Security", severity |-> "Low",
     location |-> [file |-> P_util, line_start |-> 7, line_end |-> 9],
     description |-> "Weak hash", proposed_fix |-> None]

\* the auto_rules lists an engine is built from (configuration order)
RuleLists ==
    {<<>>,
     <<RuleLowStyleDismiss>>,
     <<RuleLowAccept, RuleLowStyleDismiss>>,
     <<RuleLowStyleDismiss, RuleLowAccept>>,
     <<RuleHighDefer, RuleLowAccept>>,
     <<RuleOldDefer, RuleLowAccept>>}

\* items given to apply: undecided, or already decided by a person
SubjectItems ==
    {Undecided(s) : s \in {Sugg1, Sugg2, Sugg3}} \cup
    {Decided(s) : s \in {Sugg1, Sugg2}}

\* suggestion lists of at most two items with distinct suggestion ids
SubjectItemLists ==
    {<<>>} \cup {<<a>> : a \in SubjectItems} \cup
    {<<p[1], p[2]>> : p \in {q \in SubjectItems \X SubjectItems :
                                q[1].suggestion.id # q[2].suggestion.id}}

\* the clock at the time of the calls: the day of creation, or a day and a half on
SubjectClocks == {0, 3}

SubjectContext == [pr_number |-> Some(1), repo |-> "owner/repo", commit_sha |-> "abc123"]

InitRules ==
    /\ files = <<>>
    /\ index = <<>>
    /\ pgReviews = <<>>
    /\ pgSuggestions = <<>>
    /\ nextId = 2
    /\ now \in SubjectClocks
    /\ reviewed = [c \in Contexts |-> None]
    /\ lastSaved = None
    /\ \E rules \in RuleLists, items \in SubjectItemLists :
          subject = Some([rules |-> rules,
                          review |-> [NewReview(1, SubjectContext, 0) EXCEPT
                                         !.suggestions = items]])
    /\ applied = <<>>
    /\ called = None
    /\ suppItems = <<>>
    /\ tree = <<>>
    /\ swept = None
    /\ advice = None
    /\ extracted = None
    /\ pgTx = None
    /\ pgLoad = None
    /\ pgOut = None
    /\ savers = [p \in Procs |-> Idle(<<>>)]
    /\ indexTorn = FALSE
    /\ overlapped = FALSE

\* engine.apply(&mut review): the review it leaves and the count it returns
RunApply ==
    /\ IsSome(subject)
    /\ Len(applied) < MaxApplies
    /\ LET rules == subject[1].rules
           before == IF Len(applied) = 0 THEN subject[1].review
                     ELSE applied[Len(applied)].after
           result == Apply(rules, before, now)
       IN  applied' = Append(applied,
                             [before |-> before,
                              after |-> result.review,
                              count |-> result.count])
    /\ UNCHANGED <<files, index, pgReviews, pgSuggestions, nextId, now,
                   reviewed, lastSaved, subject, called, suppVars,
                   advisorVars, pgCallVars,
                   jsonCallVars>>

NextRules == RunApply

SpecRules == InitRules /\ [][NextRules]_vars

----------------------------------------------------------------------------
(* The condition language alone: RulesEngine::apply with one rule, on a     *)
(* review of one undecided item                                            *)

\* "type == 'style'"
X_type_style ==
    <<"t", "y", "p", "e", " ", "=", "=", " ", "'", "s", "t", "y", "l", "e",
      "'">>
\* "age_days > 7"
X_age_gt_7 == <<"a", "g", "e", "_", "d", "a", "y", "s", " ", ">", " ", "7">>
\* "priority == 'low'"
X_unknown_eq ==
    <<"p", "r", "i", "o", "r", "i", "t", "y", " ", "=", "=", " ", "'", "l",
      "o", "w", "'">>
\* "priority == ''"
X_unknown_empty ==
    <<"p", "r", "i", "o", "r", "i", "t", "y", " ", "=", "=", " ", "'", "'">>
\* "priority > 1"
X_unknown_gt == <<"p", "r", "i", "o", "r", "i", "t", "y", " ", ">", " ", "1">>
\* "age_days > soon"
X_age_gt_word ==
    <<"a", "g", "e", "_", "d", "a", "y", "s", " ", ">", " ", "s", "o", "o",
      "n">>
\* "severity > 1"
X_sev_gt_num == <<"s", "e", "v", "e", "r", "i", "t", "y", " ", ">", " ", "1">>
\* "file_path == 'src/main.rs'"
X_file_main ==
    <<"f", "i", "l", "e", "_", "p", "a", "t", "h", " ", "=", "=", " ", "'",
      "s", "r", "c", "/", "m", "a", "i", "n", ".", "r", "s", "'">>

\* the comparisons a condition is written from
Comparisons ==
    {C_low, X_type_style, X_age_gt_7, X_unknown_eq, X_unknown_empty,
     X_unknown_gt, X_age_gt_word, X_sev_gt_num, X_file_main}

\* the conditions: one comparison, or two joined by " AND "
ComparisonLists ==
    {<<x>> : x \in Comparisons} \cup
    {<<x, y>> : x \in {C_low, X_age_gt_7, X_unknown_empty}, y \in Comparisons}

\* "a AND b AND c" as it is written in the configuration
RECURSIVE JoinAnd(_)
JoinAnd(parts) ==
    IF Len(parts) = 1 THEN parts[1]
    ELSE parts[1] \o <<" ", "A", "N", "D", " ">> \o JoinAnd(Tail(parts))

\* the suggestion under the rule: every severity and type, on src/main.rs
CondItems ==
    {Undecided([Sugg1 EXCEPT !.severity = sev, !.suggestion_type = t]) :
        sev \in Severity, t \in SuggestionType}

\* the age of the review in half-days: 3, 7, 7 1/2, 8 and 10 days
CondClocks == {6, 14, 15, 16, 20}

InitCond ==
    /\ files = <<>>
    /\ index = <<>>
    /\ pgReviews = <<>>
    /\ pgSuggestions = <<>>
    /\ nextId = 2
    /\ now \in CondClocks
    /\ reviewed = [c \in Contexts |-> None]
    /\ lastSaved = None
    /\ \E parts \in ComparisonLists, item \in CondItems :
          subject = Some([rules |-> <<[condition |-> JoinAnd(parts),
                                       action |-> "AutoDismiss",
                                       reason |-> R_noise]>>,
                          review |-> [NewReview(1, SubjectContext, 0) EXCEPT
                                         !.suggestions = <<item>>],
                          parts |-> parts])
    /\ applied = <<>>
    /\ called = None
    /\ suppItems = <<>>
    /\ tree = <<>>
    /\ swept = None
    /\ advice = None
    /\ extracted = None
    /\ pgTx = None
    /\ pgLoad = None
    /\ pgOut = None
    /\ savers = [p \in Procs |-> Idle(<<>>)]
    /\ indexTorn = FALSE
    /\ overlapped = FALSE

SpecCond == InitCond /\ [][NextRules]_vars

----------------------------------------------------------------------------
(* The operators of a comparison: RulesEngine::apply with one rule of one  *)
(* comparison, on a review of one undecided item                            *)

\* "age_days >= 7"
O_age_ge_7 ==
    <<"a", "g", "e", "_", "d", "a", "y", "s", " ", ">", "=", " ", "7">>
\* "age_days < 7"
O_age_lt_7 == <<"a", "g", "e", "_", "d", "a", "y", "s", " ", "<", " ", "7">>
\* "age_days <= 7"
O_age_le_7 ==
    <<"a", "g", "e", "_", "d", "a", "y", "s", " ", "<", "=", " ", "7">>
\* "age_days != 7"
O_age_ne_7 ==
    <<"a", "g", "e", "_", "d", "a", "y", "s", " ", "!", "=", " ", "7">>
\* "severity != 'high'"
O_sev_ne_high ==
    <<"s", "e", "v", "e", "r", "i", "t", "y", " ", "!", "=", " ", "'", "h",
      "i", "g", "h", "'">>
\* "age_days >= 7 >= 3"
O_age_ge_twice ==
    <<"a", "g", "e", "_", "d", "a", "y", "s", " ", ">", "=", " ", "7", " ",
      ">", "=", " ", "3">>
\* "age_days > 3 < 10"
O_age_gt_lt ==
    <<"a", "g", "e", "_", "d", "a", "y", "s", " ", ">", " ", "3", " ", "<",
      " ", "1", "0">>
\* "severity == 'low' == 'low'"
O_sev_eq_twice ==
    <<"s", "e", "v", "e", "r", "i", "t", "y", " ", "=", "=", " ", "'", "l",
      "o", "w", "'", " ", "=", "=", " ", "'", "l", "o", "w", "'">>
\* "age_days => 7"
O_age_arrow ==
    <<"a", "g", "e", "_", "d", "a", "y", "s", " ", "=", ">", " ", "7">>
\* "age_days = 7"
O_age_assign == <<"a", "g", "e", "_", "d", "a", "y", "s", " ", "=", " ", "7">>
\* "severity !== 'high'"
O_sev_strict_ne ==
    <<"s", "e", "v", "e", "r", "i", "t", "y", " ", "!", "=", "=", " ", "'",
      "h", "i", "g", "h", "'">>
\* "severity !== ''"
O_sev_strict_ne_empty ==
    <<"s", "e", "v", "e", "r", "i", "t", "y", " ", "!", "=", "=", " ", "'",
      "'">>

\* comparisons with an operator of the language
SupportedComparisons == {X_age_gt_7, O_age_ge_7, O_age_lt_7}

\* comparisons with an operator the language does not have
UnsupportedComparisons ==
    {O_age_le_7, O_age_ne_7, O_sev_ne_high, O_age_arrow, O_age_assign,
     O_sev_strict_ne, O_sev_strict_ne_empty}

\* comparisons with more than one operator
RepeatedComparisons == {O_age_ge_twice, O_age_gt_lt, O_sev_eq_twice}

OpComparisons ==
    SupportedComparisons \cup UnsupportedComparisons \cup RepeatedComparisons

InitOps ==
    /\ files = <<>>
    /\ index = <<>>
    /\ pgReviews = <<>>
    /\ pgSuggestions = <<>>
    /\ nextId = 2
    /\ now \in CondClocks
    /\ reviewed = [c \in Contexts |-> None]
    /\ lastSaved = None
    /\ \E x \in OpComparisons, item \in CondItems :
          subject = Some([rules |-> <<[condition |-> x,
                                       action |-> "AutoDismiss",
                                       reason |-> R_noise]>>,
                          review |-> [NewReview(1, SubjectContext, 0) EXCEPT
                                         !.suggestions = <<item>>],
                          parts |-> <<x>>])
    /\ applied = <<>>
    /\ called = None
    /\ suppItems = <<>>
    /\ tree = <<>>
    /\ swept = None
    /\ advice = None
    /\ extracted = None
    /\ pgTx = None
    /\ pgLoad = None
    /\ pgOut = None
    /\ savers = [p \in Procs |-> Idle(<<>>)]
    /\ indexTorn = FALSE
    /\ overlapped = FALSE

SpecOps == InitOps /\ [][NextRules]_vars

----------------------------------------------------------------------------
(* suppressions.rs: the suppression list and the files it hashes *)

\* u32::saturating_sub
saturating_sub(a, b) == IF a >= b THEN a - b ELSE 0

\* a file's content is the sequence of its lines, each with its text and
\* whether "\r\n" rather than "\n" ends it; str::lines yields the texts
Lines(content) == [i \in 1..Len(content) |-> content[i].text]

\* relevant_lines.join("\n")
RECURSIVE JoinLines(_)
JoinLines(lines) ==
    IF Len(lines) = 0 THEN <<>>
    ELSE IF Len(lines) = 1 THEN lines[1]
    ELSE lines[1] \o <<"\n">> \o JoinLines(Tail(lines))

\* format!("{:x}", md5::compute(bytes)): distinct inputs give distinct digests
\* (collisions of MD5 are left out)
Md5Hex(bytes) == <<"md5", bytes>>

\* mutant: only the first line of the range is hashed
HashOfFirstLine(lines, start, end) ==
    IF start >= Len(lines) THEN None
    ELSE Some(Md5Hex(lines[start + 1]))

\* get_content_hash from "let start" on.  (&lines[start..end] panics when
\* start > end, which takes line_end < line_start - 1: no such range is drawn.)
HashOfLines(lines, start, end) ==
    IF start >= Len(lines) THEN None
    ELSE Some(Md5Hex(JoinLines(SubSeq(lines, start + 1, end))))

\* get_content_hash(repo_root, file, line_start, line_end), tr the files
\* under repo_root
get_content_hash(tr, file, line_start, line_end) ==
    IF file \notin DOMAIN tr THEN None      \* fs::read_to_string(..).ok()?
    ELSE HashOfLines(Lines(tr[file]), saturating_sub(line_start, 1),
                     Min({line_end, Len(Lines(tr[file]))}))

\* "if &current_hash != expected_hash { return false }", inside
\* "if let Some(current_hash) = get_content_hash(..)"
HashDiffers(current, expected) == IsSome(current) /\ current[1] # expected

\* mutant: a file or range that cannot be read counts as a mismatch
ActiveFilterStrict(s, root, clock, tr) ==
    IF IsSome(s.expires) /\ clock > s.expires[1] THEN FALSE
    ELSE IF /\ IsSome(s.content_hash)
            /\ IsSome(root)
            /\ get_content_hash(tr, s.file, s.line_start, s.line_end)
                  # Some(s.content_hash[1])
    THEN FALSE
    ELSE TRUE

\* the filter of Suppressions::active
ActiveFilter(s, root, clock, tr) ==
    IF IsSome(s.expires) /\ clock > s.expires[1] THEN FALSE
    ELSE IF /\ IsSome(s.content_hash)
            /\ IsSome(root)
            /\ HashDiffers(get_content_hash(tr, s.file, s.line_start, s.line_end),
                           s.content_hash[1])
    THEN FALSE
    ELSE TRUE

\* Suppressions::active(repo_root)
active(list, root, clock, tr) ==
    SelectSeq(list, LAMBDA s : ActiveFilter(s, root, clock, tr))

\* ASCII letters, for str::to_lowercase (no other cased letter is drawn)
UpperCase ==
    <<"A", "B", "C", "D", "E", "F", "G", "H", "I", "J", "K", "L", "M",
      "N", "O", "P", "Q", "R", "S", "T", "U", "V", "W", "X", "Y", "Z">>
LowerCase ==
    <<"a", "b", "c", "d", "e", "f", "g", "h", "i", "j", "k", "l", "m",
      "n", "o", "p", "q", "r", "s", "t", "u", "v", "w", "x", "y", "z">>

LowerChar(c) ==
    IF \E k \in 1..26 : UpperCase[k] = c
    THEN LowerCase[CHOOSE k \in 1..26 : UpperCase[k] = c]
    ELSE c

\* str::to_lowercase
to_lowercase(str) == [i \in 1..Len(str) |-> LowerChar(str[i])]

\* mutant: the overlap test leaves the end lines out
PassesChecksExclusive(s, file, line_start, line_end, finding_type, description) ==
    /\ s.file = file
    /\ line_start < s.line_end /\ line_end > s.line_start
    /\ IsSome(s.finding_type) => s.finding_type[1] = finding_type
    /\ IsSome(s.pattern) =>
          Contains(to_lowercase(description), to_lowercase(s.pattern[1]))

\* mutant: the pattern is looked for in the description as written
PassesChecksCased(s, file, line_start, line_end, finding_type, description) ==
    /\ s.file = file
    /\ line_start <= s.line_end /\ line_end >= s.line_start
    /\ IsSome(s.finding_type) => s.finding_type[1] = finding_type
    /\ IsSome(s.pattern) => Contains(description, to_lowercase(s.pattern[1]))

\* the body of the loop of is_suppressed: no "continue" is taken
PassesChecks(s, file, line_start, line_end, finding_type, description) ==
    /\ s.file = file
    /\ line_start <= s.line_end /\ line_end >= s.line_start
    /\ IsSome(s.finding_type) => s.finding_type[1] = finding_type
    /\ IsSome(s.pattern) =>
          Contains(to_lowercase(description), to_lowercase(s.pattern[1]))

\* the loop of is_suppressed over the active suppressions
FirstPassing(act, file, line_start, line_end, finding_type, description) ==
    FirstOf(act, {i \in 1..Len(act) :
                     PassesChecks(act[i], file, line_start, line_end,
                                  finding_type, description)})

\* Suppressions::is_suppressed
is_suppressed(list, file, line_start, line_end, finding_type, description, root, clock, tr) ==
    FirstPassing(active(list, root, clock, tr), file, line_start, line_end,
                 finding_type, description)

\* a push that keeps an existing suppression of the same id
add_push(list, suppression) == Append(list, suppression)

\* Suppressions::add
add(list, suppression) ==
    Append(SelectSeq(list, LAMBDA s : s.id # suppression.id), suppression)

\* mutant: cleanup removes the expired entries only
CleanupRetainExpiry(s, root, clock, tr) ==
    ~(IsSome(s.expires) /\ clock > s.expires[1])

\* the closure of self.items.retain in Suppressions::cleanup
CleanupRetain(s, root, clock, tr) ==
    IF IsSome(s.expires) /\ clock > s.expires[1] THEN FALSE
    ELSE IF /\ IsSome(s.content_hash)
            /\ IsSome(root)
            /\ HashDiffers(get_content_hash(tr, s.file, s.line_start, s.line_end),
                           s.content_hash[1])
    THEN FALSE
    ELSE TRUE

\* "let removed = initial_count - self.items.len()", and the list left
CleanupResult(initial, kept) ==
    [items |-> kept, removed |-> Len(initial) - Len(kept)]

\* Suppressions::cleanup(repo_root)
cleanup(list, root, clock, tr) ==
    CleanupResult(list, SelectSeq(list, LAMBDA s : CleanupRetain(s, root, clock, tr)))

\* the line to_prompt writes for a suppression: the pieces of
\* "- {} (lines {}-{}): {} [Reason: {}]\n"
PromptLine(s) ==
    <<"- ", s.file, " (lines ">> \o NatToString(s.line_start) \o <<"-">>
        \o NatToString(s.line_end) \o <<"): ">>
        \o (IF IsSome(s.pattern) THEN s.pattern[1] ELSE <<"any issue">>)
        \o <<" [Reason: ", s.reason, "]\n">>

RECURSIVE PromptLines(_)
PromptLines(act) ==
    IF Len(act) = 0 THEN <<>> ELSE PromptLine(Head(act)) \o PromptLines(Tail(act))

\* Suppressions::to_prompt from "if active.is_empty()" on
PromptOf(act) ==
    IF Len(act) = 0 THEN <<>>
    ELSE <<"\n\nPreviously reviewed and suppressed findings (DO NOT report these again):\n">>
            \o PromptLines(act)

\* a rendering of every stored suppression, active or not
to_prompt_stored(list, root, clock, tr) == PromptOf(list)

\* Suppressions::to_prompt(repo_root)
to_prompt(list, root, clock, tr) == PromptOf(active(list, root, clock, tr))

\* "if removed > 0 { info!(removed, ..) }": the count reported, if any
Reported(removed) == IF removed > 0 THEN Some(removed) ELSE None

\* create_suppression; the clock counts half-days
create_suppression(id, file, line_start, line_end, finding_type, reason, suppressed_by, expires_days, root, clock, tr) ==
    [id |-> id, file |-> file, line_start |-> line_start, line_end |-> line_end,
     finding_type |-> finding_type, pattern |-> None, reason |-> reason,
     suppressed_by |-> suppressed_by, suppressed_at |-> clock,
     content_hash |-> IF IsSome(root)
                      THEN get_content_hash(tr, file, line_start, line_end)
                      ELSE None,
     expires |-> IF IsSome(expires_days) THEN Some(clock + 2 * expires_days[1])
                 ELSE None]

----------------------------------------------------------------------------
(* The suppression list alone: add, is_suppressed and cleanup, over a file  *)
(* that is edited and a clock that advances                                  *)

MaxClock == 1       \* half-days the clock advances

SuppFile == "src/main.rs"
OtherFile == "src/other.rs"

\* the directory given as repo_root
RepoRoot == "repo"
Roots == {None, Some(RepoRoot)}

Line(text) == [text |-> text, cr |-> FALSE]

\* the file as it was when the suppressions were written: four lines
Fixture == <<Line(<<"a">>), Line(<<"b">>), Line(<<"c">>), Line(<<"d">>)>>

\* the text an edit writes
NewText == <<"x">>

\* the edits of a file: a line rewritten, a line inserted before line i (or
\* appended), a line deleted, the file cut to its first k lines, a line end
\* turned into "\r\n"
ChangeLine(content, i) == [content EXCEPT ![i].text = NewText]
InsertLine(content, i) ==
    SubSeq(content, 1, i - 1) \o <<Line(NewText)>> \o SubSeq(content, i, Len(content))
DeleteLine(content, i) ==
    SubSeq(content, 1, i - 1) \o SubSeq(content, i + 1, Len(content))
Truncate(content, k) == SubSeq(content, 1, k)
SetCr(content, i) == [content EXCEPT ![i].cr = TRUE]

Edits(content) ==
    {ChangeLine(content, i) : i \in 1..Len(content)}
    \cup {InsertLine(content, i) : i \in 1..(Len(content) + 1)}
    \cup {DeleteLine(content, i) : i \in 1..Len(content)}
    \cup {Truncate(content, k) : k \in 0..(Len(content) - 1)}
    \cup {SetCr(content, i) : i \in 1..Len(content)}

\* "Raw Sql query"
D_sql == <<"R", "a", "w", " ", "S", "q", "l", " ", "q", "u", "e", "r", "y">>
\* "Some issue"
D_issue == <<"S", "o", "m", "e", " ", "i", "s", "s", "u", "e">>
\* "SQL"
Pat_sql == <<"S", "Q", "L">>

\* the suppression of the tests of suppressions.rs: S001, lines 10 to 20
TestSuppression ==
    [id |-> "S001", file |-> SuppFile, line_start |-> 10, line_end |-> 20,
     finding_type |-> Some("logic"), pattern |-> None, reason |-> "Test",
     suppressed_by |-> "tester", suppressed_at |-> 0,
     content_hash |-> None, expires |-> None]

\* the same lines, whatever the finding says
AnySuppression == [TestSuppression EXCEPT !.finding_type = None]

\* a suppression of the findings that mention SQL, until the clock passes 0
PatternSuppression ==
    [TestSuppression EXCEPT !.id = "S002", !.finding_type = None,
                            !.pattern = Some(Pat_sql), !.expires = Some(0)]

\* suppressions made by create_suppression for lines 2 to 3 of the file
CreatedSuppressions(clock, tr) ==
    {create_suppression("S002", SuppFile, 2, 3, None, "Test", "tester",
                        expires_days, Some(RepoRoot), clock, tr) :
        expires_days \in {None, Some(0)}}

SuppressionInputs(clock, tr) ==
    {TestSuppression, AnySuppression, PatternSuppression}
    \cup CreatedSuppressions(clock, tr)

\* the findings is_suppressed is asked about
FindingRanges == {<<15, 18>>, <<5, 12>>, <<18, 25>>, <<25, 30>>, <<20, 22>>, <<5, 10>>}
Findings ==
    [file : {SuppFile, OtherFile}, range : FindingRanges,
     finding_type : {"logic", "security"}, description : {D_sql, D_issue}]

\* what the last cleanup was given and what it logged
CleanupOutput(root, removed) == [root |-> root, removed |-> Reported(removed)]

InitSupp ==
    /\ files = <<>>
    /\ index = <<>>
    /\ pgReviews = <<>>
    /\ pgSuggestions = <<>>
    /\ nextId = 1
    /\ now = 0
    /\ reviewed = [c \in Contexts |-> None]
    /\ lastSaved = None
    /\ subject = None
    /\ applied = <<>>
    /\ called = None
    /\ suppItems = <<>>
    /\ tree = (SuppFile :> Fixture)
    /\ swept = None
    /\ advice = None
    /\ extracted = None
    /\ pgTx = None
    /\ pgLoad = None
    /\ pgOut = None
    /\ savers = [p \in Procs |-> Idle(<<>>)]
    /\ indexTorn = FALSE
    /\ overlapped = FALSE

\* suppressions.add(suppression)
AddSuppression ==
    /\ \E suppression \in SuppressionInputs(now, tree) :
          suppItems' = add(suppItems, suppression)
    /\ UNCHANGED <<files, index, pgReviews, pgSuggestions, nextId, now,
                   reviewed, lastSaved, subject, applied, called, tree, swept,
                   advisorVars, pgCallVars,
                   jsonCallVars>>

\* suppressions.cleanup(repo_root)
CleanupCall(root) ==
    /\ suppItems' = cleanup(suppItems, root, now, tree).items
    /\ swept' = Some(CleanupOutput(root, cleanup(suppItems, root, now, tree).removed))
    /\ UNCHANGED <<files, index, pgReviews, pgSuggestions, nextId, now,
                   reviewed, lastSaved, subject, applied, called, tree,
                   advisorVars, pgCallVars,
                   jsonCallVars>>

Cleanup == \E root \in Roots : CleanupCall(root)

\* the file is edited, starting from the file as it was written
EditFile ==
    /\ tree = (SuppFile :> Fixture)
    /\ \E content \in Edits(Fixture) : tree' = (SuppFile :> content)
    /\ UNCHANGED <<files, index, pgReviews, pgSuggestions, nextId, now,
                   reviewed, lastSaved, subject, applied, called, suppItems, swept,
                   advisorVars, pgCallVars,
                   jsonCallVars>>

\* the file is put back as it was written
RestoreFile ==
    /\ tree # (SuppFile :> Fixture)
    /\ tree' = (SuppFile :> Fixture)
    /\ UNCHANGED <<files, index, pgReviews, pgSuggestions, nextId, now,
                   reviewed, lastSaved, subject, applied, called, suppItems, swept,
                   advisorVars, pgCallVars,
                   jsonCallVars>>

\* the file is deleted
RemoveFile ==
    /\ SuppFile \in DOMAIN tree
    /\ tree' = <<>>
    /\ UNCHANGED <<files, index, pgReviews, pgSuggestions, nextId, now,
                   reviewed, lastSaved, subject, applied, called, suppItems, swept,
                   advisorVars, pgCallVars,
                   jsonCallVars>>

\* time passes
Later ==
    /\ now < MaxClock
    /\ now' = now + 1
    /\ UNCHANGED <<files, index, pgReviews, pgSuggestions, nextId,
                   reviewed, lastSaved, subject, applied, called, suppVars,
                   advisorVars, pgCallVars,
                   jsonCallVars>>

\* the suppression lists in store when review() runs
PromptStores == {<<>>, <<TestSuppression>>, <<AnySuppression, PatternSuppression>>}

InitPrompt ==
    /\ files = <<>>
    /\ index = <<>>
    /\ pgReviews = <<>>
    /\ pgSuggestions = <<>>
    /\ nextId = 1
    /\ now = 0
    /\ reviewed = [c \in Contexts |-> None]
    /\ lastSaved = None
    /\ subject = None
    /\ applied = <<>>
    /\ called = None
    /\ suppItems \in PromptStores
    /\ tree = (SuppFile :> Fixture)
    /\ swept = None
    /\ advice = None
    /\ extracted = None
    /\ pgTx = None
    /\ pgLoad = None
    /\ pgOut = None
    /\ savers = [p \in Procs |-> Idle(<<>>)]
    /\ indexTorn = FALSE
    /\ overlapped = FALSE

\* Orchestrator::review with a suppression list in store
SpecPrompt == InitPrompt /\ [][NextReview]_vars

NextSupp ==
    \/ AddSuppression
    \/ Cleanup
    \/ EditFile
    \/ RestoreFile
    \/ RemoveFile
    \/ Later

SpecSupp == InitSupp /\ [][NextSupp]_vars

-----------------------------------------------------------------------------
(* add() and cleanup() with the last call kept (SpecAdd) *)

\* the last call on the suppression list: what it was given and the list
\* before it
ListCall(op, suppression, before) ==
    [op |-> op, suppression |-> suppression, before |-> before]

\* suppressions.add(suppression)
AddCall(suppression) ==
    /\ suppItems' = add(suppItems, suppression)
    /\ called' = Some(ListCall("add", Some(suppression), suppItems))
    /\ UNCHANGED <<files, index, pgReviews, pgSuggestions, nextId, now,
                   reviewed, lastSaved, subject, applied, tree, swept,
                   advisorVars, pgCallVars,
                   jsonCallVars>>

\* suppressions.cleanup(repo_root)
SweepCall(root) ==
    /\ suppItems' = cleanup(suppItems, root, now, tree).items
    /\ swept' = Some(CleanupOutput(root, cleanup(suppItems, root, now, tree).removed))
    /\ called' = Some(ListCall("cleanup", None, suppItems))
    /\ UNCHANGED <<files, index, pgReviews, pgSuggestions, nextId, now,
                   reviewed, lastSaved, subject, applied, tree,
                   advisorVars, pgCallVars,
                   jsonCallVars>>

NextAdd ==
    \/ \E suppression \in SuppressionInputs(now, tree) : AddCall(suppression)
    \/ \E root \in Roots : SweepCall(root)
    \/ EditFile
    \/ Later

SpecAdd == InitSupp /\ [][NextAdd]_vars

----------------------------------------------------------------------------
(* Properties of the pipeline (Spec) *)

StoredIds == DOMAIN files
Stored(id) == JsonLoad(files, id)[1]

\* C1: once review() has succeeded for a (repo, pr, commit), every later
\* review() of the same (repo, pr, commit) finds the existing review, returns
\* the id the first call returned, and does not invoke the reviewer.
C1_DedupPerCommit ==
    \A c \in Contexts :
        IsSome(reviewed[c]) =>
            LET existing == LookupExisting(files, index, c)
            IN  /\ ReturnsExisting(existing, c)
                /\ existing[1].id = reviewed[c][1]

\* C2: every persisted review whose status is pending or decided has status
\* decided if and only if every one of its items has a decision.
C2_StatusIffAllDecided ==
    \A id \in StoredIds :
        Stored(id).status \in {"Pending", "Decided"} =>
            (Stored(id).status = "Decided" <=> is_fully_decided(Stored(id)))

\* C6: no two persisted reviews have the same (repo, commit_sha).
C6_OneReviewPerCommit ==
    \A a \in StoredIds, b \in StoredIds :
        a # b => ~(/\ Stored(a).repo = Stored(b).repo
                   /\ Stored(a).commit_sha = Stored(b).commit_sha)

\* the decision recorded for suggestion sid in the ledger directory fs, if any
DecisionOf(fs, id, sid) ==
    LET items == JsonLoad(fs, id)[1].suggestions
        at == {i \in 1..Len(items) : items[i].suggestion.id = sid}
    IN  IF id \notin DOMAIN fs \/ at = {} THEN None ELSE items[Min(at)].decision

SuggestionIdsOf(fs, id) ==
    {JsonLoad(fs, id)[1].suggestions[i].suggestion.id :
        i \in 1..Len(JsonLoad(fs, id)[1].suggestions)}

\* C7: a decision is never implicitly cleared: in every step, an item that has
\* a decision still has one afterwards, and its record is replaced only by a
\* decide command naming that suggestion.
C7_DecisionNeverCleared ==
    [][\A id \in StoredIds : \A sid \in SuggestionIdsOf(files, id) :
          IsSome(DecisionOf(files, id, sid)) =>
              /\ id \in DOMAIN files'
              /\ IsSome(DecisionOf(files', id, sid))
              /\ DecisionOf(files', id, sid) # DecisionOf(files, id, sid) =>
                    \E repo \in Repos, pr \in PrInputs, accept \in BOOLEAN,
                       reject \in BOOLEAN, reason \in Reasons, user \in Users :
                        Decide(repo, pr, sid, accept, reject, reason, user)]_vars

\* C7 witness: a review holds a decided item and another review was saved
\* after that decision was stored (its index entry comes later).
C7_Witness ==
    \E i \in 1..Len(index) :
        /\ i < Len(index)
        /\ \E sid \in SuggestionIdsOf(files, index[i].id) :
              IsSome(DecisionOf(files, index[i].id, sid))

----------------------------------------------------------------------------
(* Properties of the ledgers (SpecLedger) *)

\* the last element of seq satisfying P
FindLast(seq, P(_)) ==
    LET hits == {i \in 1..Len(seq) : P(seq[i])}
    IN  IF hits = {} THEN None ELSE Some(seq[Max(hits)])

\* the stored review whose index entry matching P was written last
MostRecentlySaved(P(_)) ==
    LET entry == FindLast(load_index(index), P)
    IN  IF IsSome(entry) THEN JsonLoad(files, entry[1].id) ELSE None

\* C3: load_by_pr and load_by_commit return the most recently saved review
\* matching the key (the one whose index entry was written last), or none
\* when no saved review matches.
C3_LookupRecency ==
    /\ \A repo \in Repos, pr \in PrInputs :
          JsonLoadByPr(files, index, repo, pr) =
              MostRecentlySaved(LAMBDA r : r.repo = repo /\ r.pr_number = Some(pr))
    /\ \A repo \in Repos, sha \in Commits :
          JsonLoadByCommit(files, index, repo, sha) =
              MostRecentlySaved(LAMBDA r : r.repo = repo /\ r.commit_sha = sha)

IndexEntriesOf(id) == {i \in 1..Len(index) : index[i].id = id}
PgRowsOf(id) == SelectSeq(pgSuggestions, LAMBDA r : r.review_id = id)
ItemSet(items) == {items[i] : i \in 1..Len(items)}

\* C4: save is an idempotent upsert keyed by review id: each saved id has
\* exactly one stored review and one index entry, a re-save replaces the
\* suggestion set and status by those of the last save without duplicating
\* suggestions or index entries, and saving the same review again changes
\* nothing.
C4_SaveIsUpsert ==
    /\ \A i \in 1..Len(index) : index[i].id \in StoredIds
    /\ \A id \in StoredIds : Cardinality(IndexEntriesOf(id)) = 1
    /\ DOMAIN pgReviews = StoredIds
    /\ \A id \in StoredIds : Len(PgRowsOf(id)) = Len(Stored(id).suggestions)
    /\ IsSome(lastSaved) =>
          LET r == lastSaved[1].review
              pg == PgLoad(pgReviews, pgSuggestions, r.id, now)[1]
          IN  /\ Stored(r.id).suggestions = r.suggestions
              /\ Stored(r.id).status = r.status
              /\ \A i \in IndexEntriesOf(r.id) :
                    load_index(index)[i].status = r.status
              /\ ItemSet(pg.suggestions) = ItemSet(r.suggestions)
              /\ Len(pg.suggestions) = Len(r.suggestions)
              /\ pg.status = r.status
              /\ SaveFilesOf(files, r) = files
              /\ SaveIndexOf(index, r) = index
              /\ PgSaveReviews(pgReviews, r) = pgReviews
              /\ PgSaveSuggestions(pgSuggestions, r) = pgSuggestions

\* C4 witness: an id saved before was saved again, with suggestions, while
\* another review is stored as well.
C4_Witness ==
    /\ IsSome(lastSaved)
    /\ lastSaved[1].again
    /\ Len(lastSaved[1].review.suggestions) = 2
    /\ Cardinality(StoredIds) = 2

OthersWith(r, P(_)) == {id \in StoredIds \ {r.id} : P(Stored(id))}

SameReview(loaded, r) ==
    /\ IsSome(loaded)
    /\ loaded[1].id = r.id
    /\ loaded[1].suggestions = r.suggestions

\* C5: right after save(r), load(r.id) returns r's id and suggestions with
\* their decisions, and so do load_by_pr(r.repo, r.pr_number) and
\* load_by_commit(r.repo, r.commit_sha) when no other saved review shares
\* that key.
C5_RoundTrip ==
    IsSome(lastSaved) =>
        LET r == lastSaved[1].review
            pg == PgLoad(pgReviews, pgSuggestions, r.id, now)
        IN  /\ SameReview(JsonLoad(files, r.id), r)
            /\ IsSome(pg) /\ pg[1].id = r.id
            /\ ItemSet(pg[1].suggestions) = ItemSet(r.suggestions)
            /\ (/\ IsSome(r.pr_number)
                /\ OthersWith(r, LAMBDA o : o.repo = r.repo
                                            /\ o.pr_number = r.pr_number) = {})
               => SameReview(JsonLoadByPr(files, index, r.repo, r.pr_number[1]), r)
            /\ OthersWith(r, LAMBDA o : o.repo = r.repo
                                        /\ o.commit_sha = r.commit_sha) = {}
               => SameReview(JsonLoadByCommit(files, index, r.repo, r.commit_sha), r)

\* C5 witness: the review just saved has a pull request number and a decided
\* item, another review is stored, and neither of its keys is shared.
C5_Witness ==
    /\ IsSome(lastSaved)
    /\ LET r == lastSaved[1].review
       IN  /\ IsSome(r.pr_number)
           /\ \E i \in 1..Len(r.suggestions) : IsSome(r.suggestions[i].decision)
           /\ Cardinality(StoredIds) = 2
           /\ OthersWith(r, LAMBDA o : o.pr_number = r.pr_number) = {}
           /\ OthersWith(r, LAMBDA o : o.commit_sha = r.commit_sha) = {}

----------------------------------------------------------------------------
(* Properties of the rules engine (SpecRules) *)

\* the positions of the rules whose condition matches the item
MatchingRules(rules, item, created_at, clock) ==
    {k \in 1..Len(rules) :
        matches_condition(rules[k].condition, RuleContextOf(item, created_at, clock))}

ExpectedDecision ==
    [AutoAccept |-> "Accepted", AutoDismiss |-> "Rejected", AutoDefer |-> "Deferred"]

Items(review) == 1..Len(review.suggestions)

NewlyDecided(a) ==
    {i \in Items(a.before) :
        /\ IsNone(a.before.suggestions[i].decision)
        /\ IsSome(a.after.suggestions[i].decision)}

\* C8: an undecided item gets the action and the reason of the first rule, in
\* configuration order, whose condition matches it, whatever rules follow;
\* when no rule matches it stays undecided.
C8_FirstMatchWins ==
    IsSome(subject) =>
        \A n \in 1..Len(applied) :
            LET a == applied[n]
                rules == subject[1].rules
            IN  \A i \in Items(a.before) :
                    IsNone(a.before.suggestions[i].decision) =>
                        LET hits == MatchingRules(rules, a.before.suggestions[i],
                                                  a.before.created_at, now)
                            got == a.after.suggestions[i].decision
                        IN  IF hits = {} THEN IsNone(got)
                            ELSE LET first == rules[Min(hits)]
                                 IN  /\ IsSome(got)
                                     /\ got[1].decision = ExpectedDecision[first.action]
                                     /\ got[1].reason = Some(AutoPrefix \o first.reason)

\* C8 witness: apply ran on a review with an undecided item matched by two
\* rules of different actions and an undecided item no rule matches.
C8_Witness ==
    /\ IsSome(subject)
    /\ Len(applied) >= 1
    /\ LET a == applied[1]
           rules == subject[1].rules
       IN  /\ \E i \in Items(a.before) :
                 /\ IsNone(a.before.suggestions[i].decision)
                 /\ LET hits == MatchingRules(rules, a.before.suggestions[i],
                                              a.before.created_at, now)
                    IN  \E x \in hits, y \in hits : rules[x].action # rules[y].action
           /\ \E i \in Items(a.before) :
                 /\ IsNone(a.before.suggestions[i].decision)
                 /\ MatchingRules(rules, a.before.suggestions[i],
                                  a.before.created_at, now) = {}

\* C9: apply leaves the decision record of every item that already had one
\* as it was, and an apply made right after another returns 0 and leaves the
\* review unchanged.
C9_SkipsDecided ==
    \A n \in 1..Len(applied) :
        LET a == applied[n]
        IN  /\ \A i \in Items(a.before) :
                  IsSome(a.before.suggestions[i].decision) =>
                      a.after.suggestions[i] = a.before.suggestions[i]
            /\ n > 1 => (a.count = 0 /\ a.after = a.before)

\* C9 witness: the first apply decided an item and met an item decided by a
\* person that a rule matches; a second apply followed.
C9_Witness ==
    /\ IsSome(subject)
    /\ Len(applied) = 2
    /\ applied[1].count > 0
    /\ \E i \in Items(applied[1].before) :
          /\ IsSome(applied[1].before.suggestions[i].decision)
          /\ MatchingRules(subject[1].rules, applied[1].before.suggestions[i],
                           applied[1].before.created_at, now) # {}

\* C10: every decision apply writes is by "auto-rules", names the item's
\* suggestion id, carries the reason of a matching rule after "[Auto] ", and
\* is accepted for auto_accept, rejected for auto_dismiss, deferred for
\* auto_defer; the count returned is the number of items newly decided.
C10_AutoRecord ==
    IsSome(subject) =>
        \A n \in 1..Len(applied) :
            LET a == applied[n]
                rules == subject[1].rules
            IN  /\ a.count = Cardinality(NewlyDecided(a))
                /\ \A i \in NewlyDecided(a) :
                      LET item == a.before.suggestions[i]
                          rec == a.after.suggestions[i].decision[1]
                      IN  /\ rec.decided_by = "auto-rules"
                          /\ rec.suggestion_id = item.suggestion.id
                          /\ a.after.suggestions[i].suggestion = item.suggestion
                          /\ \E k \in MatchingRules(rules, item, a.before.created_at, now) :
                                /\ rec.reason = Some(<<"[", "A", "u", "t", "o", "]", " ">>
                                                     \o rules[k].reason)
                                /\ rec.decision = ExpectedDecision[rules[k].action]

\* C10 witness: one apply decided two items, one of them deferred and one
\* accepted.
C10_Witness ==
    /\ Len(applied) >= 1
    /\ applied[1].count = 2
    /\ \E i \in NewlyDecided(applied[1]), j \in NewlyDecided(applied[1]) :
          /\ applied[1].after.suggestions[i].decision[1].decision = "Deferred"
          /\ applied[1].after.suggestions[j].decision[1].decision = "Accepted"

----------------------------------------------------------------------------
(* Properties of Orchestrator::review alone (SpecReview) *)

\* the suggestions the reviewer's payload carries, None when the exchange
\* yields no such payload
ReviewerSuggestions(response) ==
    IF /\ response.sent
       /\ response.success
       /\ IsSome(response.body)
       /\ Len(response.body[1]) > 0
       /\ response.body[1][1].json
       /\ IsSome(response.body[1][1].suggestions)
    THEN Some(response.body[1][1].suggestions[1])
    ELSE None

\* the ledger is the ledger before the call plus the one review r
LedgerGrewBy(call, r) ==
    /\ r.id \notin DOMAIN call.files
    /\ DOMAIN files = DOMAIN call.files \cup {r.id}
    /\ \A id \in DOMAIN call.files : files[id] = call.files[id]
    /\ JsonLoad(files, r.id) = Some(r)
    /\ Len(index) = Len(call.index) + 1
    /\ SubSeq(index, 1, Len(call.index)) = call.index
    /\ load_index(index)[Len(index)].id = r.id

\* C18: when the reviewer, called, returns zero suggestions, review() saves
\* exactly one new review, with no suggestions and status decided, and
\* returns that review.
C18_NothingToDecide ==
    (/\ IsSome(called)
     /\ called[1].invoked
     /\ ReviewerSuggestions(called[1].response) = Some(<<>>))
    => /\ IsSome(called[1].result)
       /\ called[1].result[1].suggestions = <<>>
       /\ called[1].result[1].status = "Decided"
       /\ called[1].result[1].repo = called[1].context.repo
       /\ called[1].result[1].commit_sha = called[1].context.commit_sha
       /\ LedgerGrewBy(called[1], called[1].result[1])

\* C18 witness: a ledger that held a review already got a second one from a
\* reviewer that found nothing.
C18_Witness ==
    /\ IsSome(called)
    /\ called[1].invoked
    /\ ReviewerSuggestions(called[1].response) = Some(<<>>)
    /\ Len(called[1].index) = 1
    /\ Len(index) = 2

\* C19: when the reviewer, called, returns one or more suggestions, review()
\* saves and returns one new review with status pending holding every
\* returned suggestion, in the returned order, each without a decision: no
\* rule decides anything inside review().
C19_AllPendingInOrder ==
    (/\ IsSome(called)
     /\ called[1].invoked
     /\ IsSome(ReviewerSuggestions(called[1].response))
     /\ Len(ReviewerSuggestions(called[1].response)[1]) > 0)
    => /\ IsSome(called[1].result)
       /\ called[1].result[1].status = "Pending"
       /\ Len(called[1].result[1].suggestions) =
              Len(ReviewerSuggestions(called[1].response)[1])
       /\ \A i \in 1..Len(called[1].result[1].suggestions) :
             /\ called[1].result[1].suggestions[i].suggestion.id =
                    ReviewerSuggestions(called[1].response)[1][i].id
             /\ called[1].result[1].suggestions[i].suggestion.location =
                    ReviewerSuggestions(called[1].response)[1][i].location
             /\ called[1].result[1].suggestions[i].suggestion.description =
                    ReviewerSuggestions(called[1].response)[1][i].description
             /\ called[1].result[1].suggestions[i].decision = None
       /\ LedgerGrewBy(called[1], called[1].result[1])

\* C19 witness: the reviewer returned two suggestions that the pipeline's
\* rules would both decide, and the ledger held a review already.
C19_Witness ==
    /\ IsSome(called)
    /\ called[1].invoked
    /\ IsSome(called[1].result)
    /\ Len(called[1].result[1].suggestions) = 2
    /\ Apply(PipelineRules, called[1].result[1], now).count = 2
    /\ Len(called[1].index) = 1

\* C20: when the reviewer's call fails (the request is cut short, the status
\* is not a success, the payload does not parse), review() returns an error
\* and the stored reviews and the index are those before the call.
C20_AllOrNothing ==
    (/\ IsSome(called)
     /\ called[1].invoked
     /\ ReviewerSuggestions(called[1].response) = None)
    => /\ called[1].result = None
       /\ files = called[1].files
       /\ index = called[1].index

\* C20 witness: a payload that does not parse met a ledger that holds a review.
C20_Witness ==
    /\ IsSome(called)
    /\ called[1].invoked
    /\ called[1].response.sent
    /\ called[1].response.success
    /\ IsSome(called[1].response.body)
    /\ ReviewerSuggestions(called[1].response) = None
    /\ Len(called[1].index) = 1

----------------------------------------------------------------------------
(* Properties of the condition language (SpecCond) *)

\* the item given to apply, and whether apply left it decided
ProbedItem == subject[1].review.suggestions[1].suggestion
ProbeDecided == IsSome(applied[1].after.suggestions[1].decision)
Probed == IsSome(subject) /\ Len(applied) >= 1

\* C11: a rule matches a suggestion exactly when every comparison joined by
\* " AND " in its condition evaluates true; the rule
\* "severity == 'low' AND type == 'style'" matches exactly the suggestions of
\* severity low and type style.
C11_Conjunction ==
    Probed =>
        /\ ProbeDecided <=>
              \A i \in 1..Len(subject[1].parts) :
                  evaluate_expression(subject[1].parts[i],
                      RuleContextOf(subject[1].review.suggestions[1],
                                    subject[1].review.created_at, now))
        /\ subject[1].rules[1].condition = C_low_style =>
              (ProbeDecided <=> (/\ ProbedItem.severity = "Low"
                                 /\ ProbedItem.suggestion_type = "Style"))

\* C11 witness: the rule "severity == 'low' AND type == 'style'" was applied
\* to a suggestion of severity low and another type, and left it undecided.
C11_Witness ==
    /\ Probed
    /\ subject[1].rules[1].condition = C_low_style
    /\ ProbedItem.severity = "Low"
    /\ ProbedItem.suggestion_type = "Security"
    /\ ~ProbeDecided

\* the comparisons that name no known field, or whose numeric operand (the
\* literal, or the field's rendered value) is not a number
AmbiguousComparisons ==
    {X_unknown_eq, X_unknown_empty, X_unknown_gt, X_age_gt_word, X_sev_gt_num}

\* C12: a comparison naming an unknown field, or with a numeric operand that
\* is not a number, never evaluates true, so a rule whose condition contains
\* one never decides a suggestion.
C12_AmbiguityNeverDecides ==
    Probed =>
        ((\E i \in 1..Len(subject[1].parts) :
              subject[1].parts[i] \in AmbiguousComparisons)
         => ~ProbeDecided)

\* C13: age_days is the number of whole days from created_at to now, and the
\* rule "age_days > 7" matches exactly when that number exceeds 7: from the
\* eighth whole day (16 half-days) on.
C13_AgeInWholeDays ==
    (Probed /\ subject[1].parts = <<X_age_gt_7>>) =>
        (ProbeDecided <=> now - subject[1].review.created_at >= 16)

\* C13 witness: the rule "age_days > 7" met a review seven and a half days
\* old and left its suggestion undecided.
C13_Witness ==
    /\ Probed
    /\ subject[1].parts = <<X_age_gt_7>>
    /\ now - subject[1].review.created_at = 15
    /\ ~ProbeDecided

----------------------------------------------------------------------------
(* Properties of the suppression list (SpecSupp) *)

\* what is_suppressed answers about a finding in the current state
Suppressed(finding, root) ==
    is_suppressed(suppItems, finding.file, finding.range[1], finding.range[2],
                  finding.finding_type, finding.description, root, now, tree)

\* the finding and the suppression have a line in common
ShareLine(finding, s) ==
    \E line \in finding.range[1]..finding.range[2] :
        line \in s.line_start..s.line_end

\* a suppression that constrains neither the finding's type nor its text and
\* that neither expires nor carries a hash
Unconstrained(s) ==
    /\ IsNone(s.finding_type)
    /\ IsNone(s.pattern)
    /\ IsNone(s.expires)
    /\ IsNone(s.content_hash)

\* the answer of is_suppressed about a finding is right about the file and
\* the lines
OverlapAnswer(finding, answer) ==
    /\ IsSome(answer) =>
          /\ answer[1].file = finding.file
          /\ ShareLine(finding, answer[1])
    /\ (Len(suppItems) = 1 /\ Unconstrained(suppItems[1])) =>
          (IsSome(answer)
              <=> (finding.file = suppItems[1].file
                   /\ ShareLine(finding, suppItems[1])))
    /\ suppItems = <<AnySuppression>> =>
          (IsSome(answer)
              <=> (finding.file = SuppFile
                   /\ finding.range \in {<<15, 18>>, <<5, 12>>, <<18, 25>>,
                                         <<20, 22>>, <<5, 10>>}))

\* C14: a suppression matches a finding only on its own file and only when
\* the two inclusive line ranges share a line; lines 10 to 20 match the
\* findings at 15-18, 5-12 and 18-25 (and those touching an end line, 20-22
\* and 5-10) and match neither 25-30 nor any finding in another file.
C14_InclusiveOverlap ==
    \A finding \in Findings, root \in Roots :
        OverlapAnswer(finding, Suppressed(finding, root))

\* C14 witness: the list holds the one suppression of lines 10 to 20 and a
\* finding at lines 20 to 22 of the same file is suppressed by it.
C14_Witness ==
    /\ suppItems = <<AnySuppression>>
    /\ Suppressed([file |-> SuppFile, range |-> <<20, 22>>,
                   finding_type |-> "security", description |-> D_issue],
                  None) = Some(AnySuppression)

\* the same letter, in either case
SameLetter(a, b) ==
    \/ a = b
    \/ \E k \in 1..26 : {a, b} \subseteq {UpperCase[k], LowerCase[k]}

\* pat occurs in text when case is ignored
OccursIgnoringCase(pat, text) ==
    \E offset \in 0..(Len(text) - Len(pat)) :
        \A k \in 1..Len(pat) : SameLetter(text[offset + k], pat[k])

IsStored(s, list) == \E k \in 1..Len(list) : list[k] = s

\* the stored suppressions that are active and pass the four checks
PassingIndices(finding, root) ==
    {i \in 1..Len(suppItems) :
        /\ suppItems[i].file = finding.file
        /\ ShareLine(finding, suppItems[i])
        /\ suppItems[i].finding_type \in {None, Some(finding.finding_type)}
        /\ \/ IsNone(suppItems[i].pattern)
           \/ OccursIgnoringCase(suppItems[i].pattern[1], finding.description)
        /\ IsStored(suppItems[i], active(suppItems, root, now, tree))}

\* the first of the stored suppressions at the given indices, if any
FirstStored(indices) ==
    IF indices = {} THEN None ELSE Some(suppItems[Min(indices)])

\* C15: is_suppressed returns a suppression exactly when some active
\* suppression passes the four checks (file, line overlap, finding type if
\* given, pattern as a case-insensitive substring of the description if
\* given), and the one returned is the first such in stored order.
C15_FirstPassingSuppression ==
    \A finding \in Findings, root \in Roots :
        Suppressed(finding, root) = FirstStored(PassingIndices(finding, root))

\* C15 witness: two stored suppressions pass the checks for one finding, one
\* of them by its pattern, written in another case than the description.
C15_Witness ==
    \E finding \in Findings :
        /\ Cardinality(PassingIndices(finding, None)) = 2
        /\ \E i \in PassingIndices(finding, None) :
              /\ IsSome(suppItems[i].pattern)
              /\ ~Contains(finding.description, suppItems[i].pattern[1])

\* the stored suppressions whose hash was taken from the file as written
HashedFromFixture ==
    {i \in 1..Len(suppItems) :
        /\ IsSome(suppItems[i].content_hash)
        /\ suppItems[i].content_hash =
              get_content_hash((SuppFile :> Fixture), suppItems[i].file,
                               suppItems[i].line_start, suppItems[i].line_end)}

\* the edits of the file as written that touch lines first to last: a line
\* of the range rewritten or deleted, a line inserted into it, the file cut
\* before the end of the range
TouchingEdits(first, last) ==
    {ChangeLine(Fixture, i) : i \in first..last}
    \cup {InsertLine(Fixture, i) : i \in first..last}
    \cup {DeleteLine(Fixture, i) : i \in first..last}
    \cup {Truncate(Fixture, k) : k \in 0..(last - 1)}

ReadableEdits(first, last) ==
    {content \in TouchingEdits(first, last) : Len(content) >= first}

\* the hash of the suppression cannot be taken: the file is gone or ends
\* before the first line of the range
RangeGone(tr, s) ==
    SuppFile \notin DOMAIN tr \/ Len(tr[SuppFile]) < s.line_start

Unexpired(s, clock) == ~(IsSome(s.expires) /\ clock > s.expires[1])

----------------------------------------------------------------------------
(* Properties of review() with a suppression list in store (SpecPrompt) *)

\* the request has the directive in one of its messages
Carries(request, directive) ==
    \/ directive = <<>>
    \/ \E i \in 1..Len(request.messages) :
          Contains(request.messages[i].content, directive)

\* C21: every request review() sends to the reviewer carries the diff, the
\* context and the current suppression directive: the to_prompt rendering of
\* the suppressions active at that moment.
C21_RequestCarriesDirective ==
    (IsSome(called) /\ IsSome(called[1].request)) =>
        /\ Contains(called[1].request[1].messages[2].content, <<Diff>>)
        /\ Contains(called[1].request[1].messages[2].content,
                    <<called[1].context.repo>>)
        /\ \E root \in Roots :
              Carries(called[1].request[1], to_prompt(suppItems, root, now, tree))

----------------------------------------------------------------------------
(* Properties of the relational ledger under concurrency (SpecTx) *)

\* the review a load gave has the whole suggestion set of the last save
\* committed
WholeSet(loaded, committed) ==
    /\ IsSome(committed)
    /\ loaded.id = committed[1].review.id
    /\ ItemSet(loaded.suggestions) = ItemSet(committed[1].review.suggestions)
    /\ Len(loaded.suggestions) = Len(committed[1].review.suggestions)

\* C22: while a save runs concurrently with loads, a load never returns the
\* review with a partial suggestion set; each load gives the whole set of
\* the last save committed when it reads (the previous one until the commit,
\* the new one after), and a save that fails before its commit leaves the
\* set committed before in place.
C22_NoPartialSet ==
    [][/\ LoadRest =>
             /\ IsSome(pgOut'[1].result)
             /\ WholeSet(pgOut'[1].result[1], lastSaved)
       /\ TxFail =>
             \A id \in TxReviewIds :
                /\ IsSome(lastSaved) =>
                      WholeSet(PgLoad(pgReviews', pgSuggestions', id, now)[1],
                               lastSaved)
                /\ IsNone(lastSaved) =>
                      IsNone(PgLoad(pgReviews', pgSuggestions', id, now))
       /\ \A id \in TxReviewIds :
             LoadRow(id) => (id \in DOMAIN LoadedReviews <=> IsSome(lastSaved))]_vars

\* C22 witness: a load returned the one suggestion committed before, while a
\* save of two suggestions had deleted it and inserted one of its own.
C22_Witness ==
    /\ IsSome(pgOut)
    /\ pgOut[1].during = Some(3)
    /\ IsSome(pgOut[1].result)
    /\ Len(pgOut[1].result[1].suggestions) = 1
    /\ IsSome(pgTx)
    /\ Len(pgTx[1].review.suggestions) = 2

----------------------------------------------------------------------------
(* Properties of mark_stale (SpecStale) *)

\* the review load() gives for an id in the given tables
LoadedFrom(rows, table, id) == PgLoad(rows, table, id, now)[1]

\* C23: mark_stale(repo, pr, except_id) sets to stale exactly the reviews of
\* that repo and PR whose id is not except_id and whose status is pending,
\* returns how many it changed, and leaves every other review (except_id,
\* the non-pending ones, those of another repo or PR) and all suggestion
\* rows as they were.
C23_MarkStaleExactly ==
    [][\A repo \in Repos, pr \in PrInputs, except_id \in 1..MaxReviews :
          MarkStale(repo, pr, except_id) =>
              /\ DOMAIN pgReviews' = DOMAIN pgReviews
              /\ pgSuggestions' = pgSuggestions
              /\ \A id \in DOMAIN pgReviews :
                    LoadedFrom(pgReviews', pgSuggestions', id) =
                        IF /\ LoadedFrom(pgReviews, pgSuggestions, id).repo = repo
                           /\ LoadedFrom(pgReviews, pgSuggestions, id).pr_number = Some(pr)
                           /\ LoadedFrom(pgReviews, pgSuggestions, id).status = "Pending"
                           /\ id # except_id
                        THEN [LoadedFrom(pgReviews, pgSuggestions, id)
                                 EXCEPT !.status = "Stale"]
                        ELSE LoadedFrom(pgReviews, pgSuggestions, id)
              /\ pgOut'[1].count =
                    Some(Cardinality(
                        {id \in DOMAIN pgReviews :
                            /\ pgReviews[id].status = "pending"
                            /\ pgReviews'[id].status = "stale"}))]_vars

\* C23 witness: mark_stale changed one review and left a pending review of
\* the same pull request (the one excepted) and its suggestion rows alone.
C23_Witness ==
    /\ IsSome(pgOut)
    /\ pgOut[1].count = Some(1)
    /\ \E id \in DOMAIN pgReviews, other \in DOMAIN pgReviews :
          /\ pgReviews[id].status = "stale"
          /\ pgReviews[other].status = "pending"
          /\ pgReviews[other].pr_number = pgReviews[id].pr_number
          /\ pgReviews[other].repo = pgReviews[id].repo
    /\ Len(pgSuggestions) = 2

----------------------------------------------------------------------------
(* The decide command *)

\* the stored reviews of a ledger, by id
ReviewsIn(fs) == [id \in DOMAIN fs |-> JsonLoad(fs, id)[1]]

\* a stored review of the pull request exists
HasReviewOf(fs, repo, pr) ==
    \E id \in DOMAIN fs :
        ReviewsIn(fs)[id].repo = repo /\ ReviewsIn(fs)[id].pr_number = Some(pr)

\* the review has an item for the suggestion id
HasSuggestion(review, suggestion_id) ==
    \E i \in 1..Len(review.suggestions) :
        review.suggestions[i].suggestion.id = suggestion_id

\* the decide call is a lookup miss: no review, no such suggestion, no flag
DecideMiss(c, found) ==
    \/ ~HasReviewOf(c.files, c.repo, c.pr)
    \/ ~c.accept /\ ~c.reject
    \/ IsSome(found) /\ ~HasSuggestion(found[1], c.suggestion_id)

\* C24: a decide for a (repo, pr) with no stored review, for a suggestion id
\* the review does not have, or with neither --accept nor --reject, returns
\* an error and leaves every stored review and the index unchanged.
C24_DecideMissNoEffect ==
    (IsSome(called) /\ called[1].op = "decide") =>
        (DecideMiss(called[1], JsonLoadByPr(called[1].files, called[1].index,
                                            called[1].repo, called[1].pr)) =>
            /\ ~called[1].ok
            /\ files = called[1].files
            /\ index = called[1].index)

\* C24 witness: a decide for a suggestion id the stored review of the pull
\* request does not have has returned its error.
C24_Witness ==
    /\ IsSome(called)
    /\ called[1].op = "decide"
    /\ ~called[1].ok
    /\ called[1].accept
    /\ called[1].suggestion_id = "S999"
    /\ HasReviewOf(called[1].files, called[1].repo, called[1].pr)

\* every item but those of the suggestion id is as before, and so is every
\* suggestion and the review's identity
OnlyDecisionOf(before, after, suggestion_id) ==
    /\ [after EXCEPT !.status = before.status, !.suggestions = before.suggestions]
          = before
    /\ Len(after.suggestions) = Len(before.suggestions)
    /\ \A i \in 1..Len(before.suggestions) :
          /\ after.suggestions[i].suggestion = before.suggestions[i].suggestion
          /\ before.suggestions[i].suggestion.id # suggestion_id =>
                after.suggestions[i] = before.suggestions[i]
          /\ before.suggestions[i].suggestion.id = suggestion_id =>
                IsSome(after.suggestions[i].decision)

\* the status a decision on a pending review persists
PendingDecided(before, after, suggestion_id) ==
    before.status = "Pending" =>
        /\ after.status =
              IF \A i \in 1..Len(after.suggestions) :
                    IsSome(after.suggestions[i].decision)
              THEN "Decided" ELSE "Pending"
        /\ OnlyDecisionOf(before, after, suggestion_id)

\* C27: a decide that records a decision on a pending review persists status
\* decided iff after it every item of the review has a decision, and status
\* pending otherwise; only the targeted item's decision changes.
C27_DecideTransition ==
    (IsSome(called) /\ called[1].op = "decide" /\ called[1].ok) =>
        PendingDecided(
            JsonLoadByPr(called[1].files, called[1].index,
                         called[1].repo, called[1].pr)[1],
            ReviewsIn(files)[JsonLoadByPr(called[1].files, called[1].index,
                                          called[1].repo, called[1].pr)[1].id],
            called[1].suggestion_id)

\* the decide call was the one that decided the last open item of a pending
\* review of two
LastOpenItem(before, after) ==
    /\ before.status = "Pending"
    /\ Len(before.suggestions) = 2
    /\ IsNone(before.suggestions[1].decision)
    /\ IsSome(before.suggestions[2].decision)
    /\ after.status = "Decided"

\* C27 witness: a decide has recorded the decision on the last open item of
\* a pending review, which is stored decided.
C27_Witness ==
    /\ IsSome(called)
    /\ called[1].op = "decide"
    /\ called[1].ok
    /\ LastOpenItem(
          JsonLoadByPr(called[1].files, called[1].index,
                       called[1].repo, called[1].pr)[1],
          ReviewsIn(files)[JsonLoadByPr(called[1].files, called[1].index,
                                        called[1].repo, called[1].pr)[1].id])

\* the review the call worked on, as stored before it
CallTarget(c) ==
    IF c.op = "decide"
    THEN JsonLoadByPr(c.files, c.index, c.repo, c.pr)[1]
    ELSE ReviewsIn(c.files)[c.id]

\* an applied or stale review keeps its status
TerminalKept(before, after) ==
    before.status \in {"Applied", "Stale"} => after.status = before.status

\* C28: no decide and no RulesEngine::apply followed by save changes the
\* status of a review whose status is applied or stale, even when the call
\* makes every item decided.
C28_TerminalStatusKept ==
    (IsSome(called) /\ called[1].op \in {"decide", "apply"} /\ called[1].ok) =>
        TerminalKept(CallTarget(called[1]),
                     ReviewsIn(files)[CallTarget(called[1]).id])

----------------------------------------------------------------------------
(* Review::is_fully_decided and Review::pending_suggestions *)

\* the reviews the rules engine was given and the reviews it left
RuleReviews ==
    (IF IsSome(subject) THEN {subject[1].review} ELSE {}) \cup
    {applied[k].after : k \in 1..Len(applied)}

\* the number of items of the review without a decision
OpenItems(review) ==
    Cardinality({i \in 1..Len(review.suggestions) :
                    review.suggestions[i].decision = None})

\* C25: is_fully_decided() is true iff every suggestion item has a decision
\* (true of a review without suggestions), which is exactly when
\* pending_suggestions() is empty.
C25_FullyDecidedIffNonePending ==
    \A review \in RuleReviews :
        /\ is_fully_decided(review) <=> OpenItems(review) = 0
        /\ is_fully_decided(review) <=> pending_suggestions(review) = <<>>
        /\ review.suggestions = <<>> => is_fully_decided(review)

\* C25 witness: apply has decided one item of a review and left another
\* open, so the review is not fully decided and has one pending suggestion.
C25_Witness ==
    /\ Len(applied) > 0
    /\ Len(applied[1].after.suggestions) > 1
    /\ ~is_fully_decided(applied[1].after)
    /\ Len(pending_suggestions(applied[1].after)) = 1

----------------------------------------------------------------------------
(* extract_json *)

\* pat stands in content at position k
StandsAt(content, k, pat) ==
    /\ k >= 1
    /\ k + Len(pat) - 1 <= Len(content)
    /\ \A n \in 1..Len(pat) : content[k + n - 1] = pat[n]

\* the response has a json block that starts at i and whose closing fence
\* starts at j, both the first of their kind
FirstBlock(content, i, j) ==
    /\ StandsAt(content, i, FenceJson)
    /\ \A k \in 1..(i - 1) : ~StandsAt(content, k, FenceJson)
    /\ j >= i + 7
    /\ StandsAt(content, j, Fence)
    /\ \A k \in (i + 7)..(j - 1) : ~StandsAt(content, k, Fence)

HasBlock(content) ==
    \E i \in 1..Len(content), j \in 1..Len(content) : FirstBlock(content, i, j)

HasBraces(content) ==
    /\ \E i \in 1..Len(content) : content[i] = "{"
    /\ \E i \in 1..Len(content) : content[i] = "}"

\* text is what stands in content from its first "{" to its last "}"
OutermostBraces(content, text) ==
    /\ text # <<>>
    /\ text[1] = "{"
    /\ text[Len(text)] = "}"
    /\ \E b \in 1..Len(content) :
          /\ StandsAt(content, b, text)
          /\ \A k \in 1..(b - 1) : content[k] # "{"
          /\ \A k \in (b + Len(text))..Len(content) : content[k] # "}"

\* what the specification says of the result for the response
ExtractedAsSpecified(content, result) ==
    /\ ~result.panic
    /\ IF HasBlock(content)
       THEN \E i \in 1..Len(content), j \in 1..Len(content) :
                /\ FirstBlock(content, i, j)
                /\ result.text = Trim(SubSeq(content, i + 7, j - 1))
       ELSE IF HasBraces(content)
       THEN OutermostBraces(content, result.text)
       ELSE result.text = content
    /\ (content # <<>> /\ content[1] = "{" /\ content[Len(content)] = "}") =>
          result.text = content

\* C26: for a response with a json fenced block and a closing fence the
\* result is the trimmed text inside the first such block; otherwise, if it
\* contains "{" and "}", the text from the first "{" to the last "}"
\* inclusive; otherwise the response unchanged; a bare JSON object is
\* returned unchanged.
C26_ExtractJson ==
    IsSome(extracted) => ExtractedAsSpecified(advice[1], extracted[1])

----------------------------------------------------------------------------
(* Orchestrator::review and the reviews stored before it *)

\* the review stored under id is in the later ledger what it was in the
\* earlier one, file and index entry alike, and loads from it
KeptAsStored(fs, idx, id, later_fs, later_idx) ==
    /\ id \in DOMAIN later_fs
    /\ later_fs[id] = fs[id]
    /\ JsonLoad(later_fs, id) = JsonLoad(fs, id)
    /\ JsonLoad(later_fs, id)[1].status # "Stale"
    /\ \A i \in 1..Len(idx) :
          load_index(idx)[i].id = id =>
              \E j \in 1..Len(later_idx) : later_idx[j] = idx[i]

\* C29: review() never deletes or modifies a previously persisted review:
\* every review stored before the call, the older review of the same pull
\* request included, is unchanged after it and loads by its id, is not set
\* stale, and the set of stored ids only grows.
C29_ReviewKeepsStored ==
    IsSome(called) =>
        /\ DOMAIN called[1].files \subseteq DOMAIN files
        /\ \A id \in DOMAIN called[1].files :
              KeptAsStored(called[1].files, called[1].index, id, files, index)

\* the call stored a review of a pull request that had a review of another
\* commit
Superseded(c, fs) ==
    /\ IsSome(c.context.pr_number)
    /\ IsSome(c.result)
    /\ c.result[1].id \notin DOMAIN c.files
    /\ c.result[1].id \in DOMAIN fs
    /\ \E id \in DOMAIN c.files :
          /\ JsonLoad(c.files, id)[1].pr_number = c.context.pr_number
          /\ JsonLoad(c.files, id)[1].repo = c.context.repo
          /\ JsonLoad(c.files, id)[1].commit_sha # c.context.commit_sha
          /\ JsonLoad(c.files, id)[1].status = "Pending"

\* C29 witness: review() has stored a new review for a new commit of a pull
\* request whose pending review of the earlier commit was in the ledger.
C29_Witness == IsSome(called) /\ Superseded(called[1], files)

----------------------------------------------------------------------------
(* Suppressions::active *)

\* the file is missing under the root, or has no line line_start
RangeUnreadable(tr, s) ==
    \/ s.file \notin DOMAIN tr
    \/ Len(tr[s.file]) < s.line_start
    \/ Len(tr[s.file]) = 0

\* the last line of the range that the file has
ClampedEnd(tr, s) ==
    IF s.line_end <= Len(tr[s.file]) THEN s.line_end ELSE Len(tr[s.file])

\* the hash of lines line_start to line_end of the file, both included,
\* counted from 1 and cut at the end of the file
CurrentHash(tr, s) ==
    Md5Hex(JoinLines([k \in 1..(ClampedEnd(tr, s) - s.line_start + 1) |->
                         tr[s.file][s.line_start + k - 1].text]))

\* the suppression is one active(repo_root) is to return
StaysActive(s, root, clock, tr) ==
    /\ IsSome(s.expires) => clock <= s.expires[1]
    /\ \/ IsNone(s.content_hash)
       \/ IsNone(root)
       \/ RangeUnreadable(tr, s)
       \/ CurrentHash(tr, s) = s.content_hash[1]

\* the k-th position of the set of positions, counted from the smallest
NthOf(positions, k) ==
    CHOOSE i \in positions : Cardinality({j \in positions : j <= i}) = k

\* act is the stored list cut down to the positions kept, in stored order
KeptInOrder(list, act, kept) ==
    /\ Len(act) = Cardinality(kept)
    /\ \A k \in 1..Len(act) : act[k] = list[NthOf(kept, k)]

\* C30: active(repo_root) returns, in stored order, exactly the stored
\* suppressions that are not past their expires timestamp and for which
\* content_hash is absent, or repo_root is not supplied, or the file or range
\* cannot be read, or the current hash of the clamped inclusive 1-indexed
\* line range equals content_hash.
C30_ActiveExactly ==
    \A root \in Roots :
        KeptInOrder(suppItems, active(suppItems, root, now, tree),
                    {i \in 1..Len(suppItems) :
                        StaysActive(suppItems[i], root, now, tree)})

\* C30 witness: of the stored suppressions, one with a content hash whose
\* lines were edited is left out under the root, and one is returned.
C30_Witness ==
    /\ Len(suppItems) > 1
    /\ Len(active(suppItems, Some(RepoRoot), now, tree)) = 1
    /\ \E i \in 1..Len(suppItems) :
          /\ IsSome(suppItems[i].content_hash)
          /\ IsNone(suppItems[i].expires)
          /\ ~RangeUnreadable(tree, suppItems[i])
          /\ CurrentHash(tree, suppItems[i]) # suppItems[i].content_hash[1]

----------------------------------------------------------------------------
(* JsonLedger::save step by step (SpecIndex) *)

\* the index has an entry for the review id
Indexed(idx, id) == \E i \in 1..Len(idx) : load_index(idx)[i].id = id

\* a process is inside save() for the review id
InFlight(id) ==
    \E p \in Procs : savers[p].pc # "idle" /\ savers[p].review[1].id = id

\* no save() has returned an error
NoneFailed == \A p \in Procs : \A k \in 1..Len(savers[p].results) : savers[p].results[k] = "ok"

\* C31: with the save() calls executed one at a time (and none failing),
\* every review whose file is stored has an index entry once its save has
\* returned; two processes that interleave their reads and writes of the
\* index for different review ids can leave a stored review without one.
C31_SerialSavesIndexed ==
    (~overlapped /\ NoneFailed) =>
        \A id \in DOMAIN files : Indexed(index, id) \/ InFlight(id)

\* the review id is stored and no lookup through the index returns it
LostFromIndex(id) ==
    /\ id \in DOMAIN files
    /\ ~Indexed(index, id)
    /\ \A r \in Repos, pr \in PrInputs :
          IsNone(JsonLoadByPr(files, index, r, pr))
          \/ JsonLoadByPr(files, index, r, pr)[1].id # id
    /\ \A r \in Repos, sha \in Commits :
          IsNone(JsonLoadByCommit(files, index, r, sha))
          \/ JsonLoadByCommit(files, index, r, sha)[1].id # id
    /\ \A r \in Repos :
          \A k \in 1..Len(JsonListByRepo(files, index, r)) :
              JsonListByRepo(files, index, r)[k].id # id

\* C31 witness: two save() calls for different review ids overlapped, both
\* returned Ok, and the file of one review is stored without an index entry.
C31_Witness ==
    /\ overlapped
    /\ NoneFailed
    /\ \A p \in Procs : savers[p].pc = "idle" /\ Len(savers[p].results) = 1
    /\ Cardinality(DOMAIN files) = 2
    /\ \E id \in DOMAIN files : LostFromIndex(id)

\* the step is one in which the save() of the process fails on the index
IndexFails(p) ==
    SaveLoadIndexFail(p) \/ \E cut \in BOOLEAN : SaveWriteIndexFail(p, cut)

\* C34: when reading or writing the index fails, save returns an error, the
\* review file written before stands and load(id) returns it, and the index
\* keeps its previous content: no entry is removed or half-updated.
C34_IndexFailureKeepsIndex ==
    [][\A p \in Procs :
          IndexFails(p) =>
              /\ savers'[p].results[Len(savers'[p].results)] = "err"
              /\ files' = files
              /\ IsSome(JsonLoad(files', savers[p].review[1].id))
              /\ (~overlapped =>
                     JsonLoad(files', savers[p].review[1].id) = savers[p].review)
              /\ index' = index
              /\ indexTorn' = indexTorn]_vars

----------------------------------------------------------------------------
(* The two ledgers side by side (SpecLedger) *)

\* the decisions of a review, each with the id of its suggestion
DecisionsOf(review) ==
    {<<review.suggestions[i].suggestion.id, review.suggestions[i].decision>> :
        i \in 1..Len(review.suggestions)}

\* the two lookups found nothing, or found reviews of the same id, commit,
\* status and decisions
SameFound(a, b) ==
    IF IsNone(a) \/ IsNone(b) THEN a = b
    ELSE /\ a[1].id = b[1].id
         /\ a[1].commit_sha = b[1].commit_sha
         /\ a[1].status = b[1].status
         /\ DecisionsOf(a[1]) = DecisionsOf(b[1])

\* C32: after any sequence of save() calls given to both backends alike,
\* load(id), load_by_pr(repo, pr) and load_by_commit(repo, sha) return reviews
\* of the same id, commit_sha, status and suggestion decisions from both,
\* also when several saved reviews share a key and when a review is saved
\* again.
C32_BackendsAgree ==
    /\ \A id \in 1..MaxReviews :
          SameFound(JsonLoad(files, id), PgLoad(pgReviews, pgSuggestions, id, now))
    /\ \A repo \in Repos, pr \in PrInputs :
          \A found \in PgLoadByPr(pgReviews, pgSuggestions, repo, pr, now) :
              SameFound(JsonLoadByPr(files, index, repo, pr), found)
    /\ \A repo \in Repos, sha \in Commits :
          \A found \in PgLoadByCommit(pgReviews, pgSuggestions, repo, sha, now) :
              SameFound(JsonLoadByCommit(files, index, repo, sha), found)

\* the ids of the suggestions of a review, in the order of its items
SuggestionOrder(review) ==
    [i \in 1..Len(review.suggestions) |-> review.suggestions[i].suggestion.id]

\* C33: save followed by load returns the suggestion items in the order in
\* which they were saved, for both backends.
C33_OrderPreserved ==
    IsSome(lastSaved) =>
        /\ SuggestionOrder(JsonLoad(files, lastSaved[1].review.id)[1])
              = SuggestionOrder(lastSaved[1].review)
        /\ SuggestionOrder(PgLoad(pgReviews, pgSuggestions,
                                  lastSaved[1].review.id, now)[1])
              = SuggestionOrder(lastSaved[1].review)

\* the list has each of the ids once and no other, and each review as
\* load(id) of the backend returns it
ListsExactly(list, ids, loaded) ==
    /\ Len(list) = Cardinality(ids)
    /\ {list[k].id : k \in 1..Len(list)} = ids
    /\ \A k \in 1..Len(list) : Some(list[k]) = loaded[list[k].id]

\* the last status saved for each review id: that of the stored review
PendingIds == {id \in StoredIds : Stored(id).status = "Pending"}
RepoIds(repo) == {id \in StoredIds : Stored(id).repo = repo}

\* the repositories asked for: the one with reviews and one without
ListRepos == Repos \cup {"other/repo"}

\* C36: after any sequence of saves, re-saves that change a status included,
\* list_pending() returns exactly the persisted reviews whose most recently
\* saved status is pending and list_by_repo(repo) exactly the persisted
\* reviews of that repo, each review once, in both backends.
C36_ListsExact ==
    /\ ListsExactly(JsonListPending(files, index), PendingIds,
                    [id \in StoredIds |-> JsonLoad(files, id)])
    /\ ListsExactly(PgListPending(pgReviews, pgSuggestions, now), PendingIds,
                    [id \in StoredIds |-> PgLoad(pgReviews, pgSuggestions, id, now)])
    /\ \A repo \in ListRepos :
          /\ ListsExactly(JsonListByRepo(files, index, repo), RepoIds(repo),
                          [id \in StoredIds |-> JsonLoad(files, id)])
          /\ ListsExactly(PgListByRepo(pgReviews, pgSuggestions, repo, now),
                          RepoIds(repo),
                          [id \in StoredIds |->
                              PgLoad(pgReviews, pgSuggestions, id, now)])

\* C36 witness: a review saved as pending was saved again as decided while
\* another pending review is stored: one of two reviews is listed as pending.
C36_Witness ==
    /\ IsSome(lastSaved)
    /\ lastSaved[1].again
    /\ lastSaved[1].review.status = "Decided"
    /\ Cardinality(StoredIds) = 2
    /\ Len(JsonListPending(files, index)) = 1
    /\ Len(PgListPending(pgReviews, pgSuggestions, now)) = 1

----------------------------------------------------------------------------
(* The operators of a comparison (SpecOps) *)

\* whole days from the creation of the review under the rule to now
ProbeAge == (now - subject[1].review.created_at) \div 2

\* what the comparison under the rule means
ExpectedOfComparison(x, age) ==
    CASE x = O_age_ge_7 -> age >= 7
      [] x = X_age_gt_7 -> age > 7
      [] x = O_age_lt_7 -> age < 7
      [] OTHER -> FALSE

\* C35: "field >= N" is evaluated as greater-or-equal and never as ">" (an
\* age of exactly N matches ">= N" and not "> N"), "field < N" as strictly
\* less, and a comparison with an operator outside ==, >, >=, < (such as <=
\* or !=) or with more than one operator never evaluates true.
C35_OperatorRecognition ==
    Probed => (ProbeDecided <=> ExpectedOfComparison(subject[1].parts[1], ProbeAge))

-----------------------------------------------------------------------------
(* Properties of to_prompt (SpecSupp) *)

\* the positions of the stored suppressions that are neither expired nor
\* invalidated by a changed hash under the root
ActivePositions(root) ==
    {i \in 1..Len(suppItems) : StaysActive(suppItems[i], root, now, tree)}

\* the entry lines of the suppressions at the positions, from the k-th on
RECURSIVE EntryLinesFrom(_, _)
EntryLinesFrom(positions, k) ==
    IF k > Cardinality(positions) THEN <<>>
    ELSE PromptLine(suppItems[NthOf(positions, k)])
            \o EntryLinesFrom(positions, k + 1)

\* the number of entry lines of a prompt: each starts with a dash
EntryLineCount(prompt) == Cardinality({k \in 1..Len(prompt) : prompt[k] = "- "})

\* C37: to_prompt(repo_root) returns the empty string when no suppression is
\* active; otherwise the directive block, with exactly one entry line per
\* active suppression in stored order and no line for an expired or
\* hash-invalidated suppression.
C37_PromptListsActive ==
    \A root \in Roots :
        IF ActivePositions(root) = {}
        THEN to_prompt(suppItems, root, now, tree) = <<>>
        ELSE /\ to_prompt(suppItems, root, now, tree) # <<>>
             /\ Head(to_prompt(suppItems, root, now, tree)) =
                   "\n\nPreviously reviewed and suppressed findings (DO NOT report these again):\n"
             /\ EntryLineCount(to_prompt(suppItems, root, now, tree)) =
                   Cardinality(ActivePositions(root))
             /\ Tail(to_prompt(suppItems, root, now, tree)) =
                   EntryLinesFrom(ActivePositions(root), 1)

\* C37 witness: two suppressions are stored, the first is expired or
\* invalidated and the second is active, and the prompt has one entry line,
\* that of the second.
C37_Witness ==
    /\ Len(suppItems) = 2
    /\ ActivePositions(RepoRoot) = {2}
    /\ EntryLineCount(to_prompt(suppItems, RepoRoot, now, tree)) = 1
    /\ Tail(to_prompt(suppItems, RepoRoot, now, tree)) = PromptLine(suppItems[2])

\* C37 witness of the empty string: a suppression is stored and none is active
C37_EmptyWitness ==
    /\ Len(suppItems) > 0
    /\ ActivePositions(RepoRoot) = {}
    /\ to_prompt(suppItems, RepoRoot, now, tree) = <<>>

-----------------------------------------------------------------------------
(* Properties of add() and cleanup() (SpecAdd) *)

\* the last call was add()
Added == IsSome(called) /\ called[1].op = "add"

\* the positions of the list before the last call whose id the call's
\* suppression does not have
OtherPositions ==
    {i \in 1..Len(called[1].before) :
        called[1].before[i].id # called[1].suppression[1].id}

\* C38: suppression ids are unique in the store after any sequence of add()
\* and cleanup() calls from the empty list; add() of an id already stored
\* removes the old entry and appends the new one at the end, and leaves the
\* other entries and their relative order unchanged.
C38_IdsUnique ==
    /\ \A i, j \in 1..Len(suppItems) :
          suppItems[i].id = suppItems[j].id => i = j
    /\ Added =>
          /\ Len(suppItems) > 0
          /\ suppItems[Len(suppItems)] = called[1].suppression[1]
          /\ KeptInOrder(called[1].before,
                         SubSeq(suppItems, 1, Len(suppItems) - 1),
                         OtherPositions)

\* C38 witness: add() was given the id of the first of two stored
\* suppressions; the other one is now first and the new one is last.
C38_Witness ==
    /\ Added
    /\ Len(called[1].before) = 2
    /\ called[1].before[1].id = called[1].suppression[1].id
    /\ called[1].before[1] # called[1].suppression[1]
    /\ suppItems = <<called[1].before[2], called[1].suppression[1]>>

=============================================================================
